---- MODULE Spec2Model ----
(***************************************************************************)
(* Model of the download orchestration engine of HuggingFace-Manager:      *)
(* HFDownloader (core/downloader.py), the worker process it spawns         *)
(* (core/download_worker.py) and the aria2 daemon it drives                *)
(* (core/aria2_manager.py).                                                *)
(*                                                                         *)
(* Granularity.  A public method of HFDownloader is split where the code   *)
(* releases self._task_lock: start_download is StartDownload (the locked   *)
(* check and status write) followed by SpawnProcess or DispatchAria2;      *)
(* cancel_download is CancelDownload (the locked status write) followed by *)
(* CancelFinish (process kill / aria2 RPCs / save).  The calls in flight   *)
(* between the two halves are the variable calls.  One pass of the body of *)
(* _monitor_queue_loop and one pass of _monitor_aria2_task are one step.   *)
(*                                                                         *)
(* Specifications.  Spec is the engine within and across runs of the      *)
(* application.  SpecRemove is the engine with remove_task and             *)
(* clear_completed as the calls that stop tasks.  SpecLoad is load_queue   *)
(* and the auto-resume thread on the queue files an earlier run can leave. *)
(* SpecClear is clear_completed on registries of several tasks.  SpecDisk  *)
(* is the resolution, use and deletion of the target directory.  SpecCrash *)
(* is the Python backend with workers that die silently.  SpecVerify is    *)
(* Verifier.verify_repo on drawn directories.  SpecStall is the speed      *)
(* sampling and the stall sweep of the monitor loop over time.  SpecRace   *)
(* is cancel_download against the monitor loop at the grain of their       *)
(* accesses to the process map.  SpecNotify is the monitor loop's handling *)
(* of each kind of event and the observers it calls.  SpecPoll is the      *)
(* aria2 dispatch of a filtered listing and the polling that follows.      *)
(*                                                                         *)
(* Abstractions.  progress is a float in the code; here it is the integer  *)
(* floor of the same quotient, which is 100 exactly when the float is      *)
(* (for byte counts below 2^50).  An error message is represented by a tag *)
(* naming the place that produced it; "none" is Python's None.             *)
(***************************************************************************)
EXTENDS Integers, Sequences, FiniteSets, TLC

\* ---------------------------------------------------------------- bounds
TaskIds == {"t1"}
MaxQueue == 2        \* messages in flight on the progress channel
MaxPids == 1         \* worker processes ever spawned
MaxSent == 2         \* progress/monitor_update events one worker emits
MaxBytes == 3        \* largest byte count a message or a job reports
MaxCalls == 1        \* calls of one method in flight between their halves
MaxRestarts == 1     \* application restarts (save, then load_queue)
MaxDispatches == 1   \* dispatches of one run that add jobs to the daemon
MaxSuffix == 2       \* directories base, base_1, ... that may exist on disk
BatchSize == 1       \* addUri calls in one multicall (50 in the code)

\* The repository being fetched: the sizes of its files, in listing order,
\* and their sum.
FileSizes == <<1, 1>>

RECURSIVE SumSeq(_)
SumSeq(s) == IF s = << >> THEN 0 ELSE Head(s) + SumSeq(Tail(s))

RepoSize == SumSeq(FileSizes)

None == "none"

\* The directories of one download root: path n is the resolved directory
\* with suffix _n (0 is the unsuffixed one).  A directory is absent or holds
\* a set of entries: a weights file, a readme, an aria2 control file.
Paths == 0..(MaxSuffix - 1)
Absent == [exists |-> FALSE, files |-> {}]
Dir(files) == [exists |-> TRUE, files |-> files]
Files == {"model.bin", "README.md", "model.bin.aria2"}
True == "True"
False == "False"

\* ------------------------------------------------------- DownloadStatus
PENDING == "pending"
DOWNLOADING == "downloading"
PAUSED == "paused"
COMPLETED == "completed"
FAILED == "failed"
CANCELLED == "cancelled"
VERIFYING == "verifying"

DownloadStatus ==
  {PENDING, DOWNLOADING, PAUSED, COMPLETED, FAILED, CANCELLED, VERIFYING}

VARIABLES
  tasks,          \* self._tasks: task id -> DownloadTask
  processes,      \* self._processes: task id -> pid
  workers,        \* the worker processes spawned so far: pid -> state
  msg_queue,      \* self._msg_queue
  calls,          \* public calls between their locked and unlocked halves
  saved,          \* the persisted queue file: task id -> record
  method,         \* config 'download_method'
  auto_resume,    \* config 'auto_resume_incomplete'
  use_hf_transfer,\* self.use_hf_transfer
  restarts,       \* number of restarts so far
  aria2_gids,     \* self.aria2_gids: task id -> list of gids
  jobs,           \* the aria2 daemon's downloads: gid -> status, bytes
  monitors,       \* the running _monitor_aria2_task threads: (task, gids)
  dispatches,     \* number of dispatches of this run that added jobs
  disk,           \* the download directories on disk: path -> files
  now,            \* time.time(), in units of half a second
  speed_tracker,  \* self._speed_tracker: task id -> last_size, last_time
  event_times,    \* the times at which progress events were handled
  last            \* the step just taken: operation, task, result, pre-status

vars == <<tasks, processes, workers, msg_queue, calls, saved, method,
          auto_resume, use_hf_transfer, restarts, aria2_gids, jobs, monitors,
          dispatches, disk, now, speed_tracker, event_times, last>>

\* The state of the isolated-process backend and of the accelerator backend.
pyVars == <<processes, workers, msg_queue>>
ariaVars == <<aria2_gids, jobs, monitors, dispatches>>
config == <<method, auto_resume, use_hf_transfer, restarts>>
clock == <<now, speed_tracker, event_times>>

\* ------------------------------------------------------------- helpers
Min(a, b) == IF a < b THEN a ELSE b

\* The quotient without the clamp to 100.
PercentUnclamped(downloaded, total) == (downloaded * 100) \div total

\* min(100.0, (downloaded / total) * 100), as an integer percentage.
Percent(downloaded, total) == Min(100, (downloaded * 100) \div total)

\* DownloadTask(...) with the dataclass defaults.
DownloadTask(st, tot, done, err) ==
  [status |-> st, progress |-> 0, downloaded_size |-> done,
   total_size |-> tot, error_message |-> err]

\* _serialize_task: progress is not among the persisted keys.
SerializeTask(task) ==
  [status |-> task.status, total_size |-> task.total_size,
   downloaded_size |-> task.downloaded_size,
   error_message |-> task.error_message]

\* save_queue: every task of the registry, serialized.
SaveQueue(ts) == [t \in DOMAIN ts |-> SerializeTask(ts[t])]

\* A record loaded as it was saved.
LoadStatusKeep(st, auto) == st

\* load_queue, the per-record part: a record that was running is reset to
\* PAUSED, or to PENDING under auto-resume.
LoadStatus(st, auto) ==
  IF st \in {DOWNLOADING, VERIFYING}
  THEN (IF auto THEN PENDING ELSE PAUSED)
  ELSE st

LoadTask(item, auto) ==
  DownloadTask(LoadStatus(item.status, auto), item.total_size,
               item.downloaded_size, item.error_message)

\* rpc is the list of aria2 RPC calls the step issued.
ActRpc(op, t, ret, pre, rpc) ==
  [op |-> op, task |-> t, ret |-> ret, pre |-> pre, rpc |-> rpc]

Act(op, t, ret, pre) == ActRpc(op, t, ret, pre, << >>)

\* The value of last after a step that is not the return of a public call.
Internal == Act("step", None, None, None)

StatusOf(ts, t) == IF t \in DOMAIN ts THEN ts[t].status ELSE None

\* dict item assignment and deletion.
Put(f, k, v) == [x \in DOMAIN f \cup {k} |-> IF x = k THEN v ELSE f[x]]
Del(f, k) == [x \in DOMAIN f \ {k} |-> f[x]]

\* A worker process that has exited or was killed.
Exited(w) ==
  [task |-> w.task, pc |-> "exit", alive |-> FALSE, sent |-> 0,
   attempts |-> w.attempts]

LiveWorkers(t) ==
  {p \in DOMAIN workers : workers[p].task = t /\ workers[p].alive}

\* --------------------------------------------------------------- Init
Init ==
  /\ tasks = << >>
  /\ processes = << >>
  /\ workers = << >>
  /\ msg_queue = << >>
  /\ calls = {}
  /\ saved = << >>
  /\ method \in {"PYTHON", "ARIA2"}
  /\ auto_resume \in {FALSE}
  /\ use_hf_transfer \in (IF method = "PYTHON" THEN BOOLEAN ELSE {FALSE})
  /\ restarts = 0
  /\ aria2_gids = << >>
  /\ jobs = << >>
  /\ monitors = {}
  /\ dispatches = 0
  /\ disk = [n \in Paths |-> Absent]
  /\ now = 0
  /\ speed_tracker = << >>
  /\ event_times = << >>
  /\ last = Act("init", None, None, None)

\* ---------------------------------------------------- queue_download
\* The task id is a hash of the request parameters, so the same request
\* addresses the same registry slot.
QueueDownload(t) ==
  /\ tasks' = Put(tasks, t, DownloadTask(PENDING, 0, 0, None))
  /\ saved' = SaveQueue(tasks')
  /\ last' = Internal
  /\ UNCHANGED <<processes, workers, msg_queue, calls, method, auto_resume,
                 use_hf_transfer, restarts, disk, clock, ariaVars>>

\* A call in flight: the operation, its arguments (for a start_download, the
\* status it found), and whether the task was DOWNLOADING or VERIFYING when
\* the call took the lock.
Call(op, t, arg, active) ==
  [op |-> op, task |-> t, arg |-> arg,
   was |-> IF active THEN "active" ELSE "idle"]

InFlight(op) == Cardinality({c \in calls : c.op = op})

IsActive(st) == st \in {DOWNLOADING, VERIFYING}

\* ---------------------------------------------------- start_download
Startable == {PENDING, PAUSED, FAILED, CANCELLED}

\* A check that also lets a COMPLETED task start again.
StartAllowedAlsoCompleted(st) == st \in Startable \cup {COMPLETED}

StartAllowed(st) == st \in Startable

\* The part of start_download under self._task_lock.
StartDownload(t) ==
  /\ InFlight("start") < MaxCalls
  /\ IF t \in DOMAIN tasks /\ StartAllowed(tasks[t].status)
     THEN /\ tasks' = [tasks EXCEPT ![t].status = DOWNLOADING,
                                    ![t].error_message = None]
          /\ calls' = calls \cup {Call("start", t, tasks[t].status, FALSE)}
          /\ last' = Act("start", t, True, tasks[t].status)
     ELSE /\ UNCHANGED <<tasks, calls>>
          /\ last' = Act("start", t, False, StatusOf(tasks, t))
  /\ UNCHANGED <<processes, workers, msg_queue, saved, method, auto_resume,
                 use_hf_transfer, restarts, disk, clock, ariaVars>>

\* _spawn_process: the rest of start_download in Python mode.
SpawnProcess(c) ==
  /\ c \in calls /\ c.op = "start"
  /\ method = "PYTHON"
  /\ Len(workers) < MaxPids
  /\ LET pid == Len(workers) + 1 IN
       /\ workers' = Append(workers,
                        [task |-> c.task, pc |-> "meta", alive |-> TRUE,
                         sent |-> 0, attempts |-> 0])
       /\ processes' = Put(processes, c.task, pid)
  /\ calls' = calls \ {c}
  /\ last' = Internal
  /\ UNCHANGED <<tasks, msg_queue, saved, method, auto_resume,
                 use_hf_transfer, restarts, disk, clock, ariaVars>>

\* --------------------------------------- pause_download/cancel_download
\* The part of cancel_download under self._task_lock; pause_download is
\* cancel_download with status PAUSED.
CancelStatus(old, new) == new

CancelDownload(t, st) ==
  /\ InFlight("cancel") < MaxCalls
  /\ IF t \in DOMAIN tasks
     THEN /\ tasks' = [tasks EXCEPT
                         ![t].status = CancelStatus(tasks[t].status, st)]
          /\ calls' = calls \cup {Call("cancel", t, st,
                                       IsActive(tasks[t].status))}
          /\ last' = Internal
     ELSE /\ UNCHANGED <<tasks, calls>>
          /\ last' = Act(IF st = PAUSED THEN "pause" ELSE "cancel", t, False,
                         None)
  /\ UNCHANGED <<processes, workers, msg_queue, saved, method, auto_resume,
                 use_hf_transfer, restarts, disk, clock, ariaVars>>

\* p.terminate(); p.join(timeout=2); if p.is_alive(): p.kill()
Terminate(ws, pid) == [ws EXCEPT ![pid] = Exited(@)]

\* ------------------------------------------------------ aria2 daemon
\* The daemon's side of the RPC methods Aria2Service wraps.  pause, unpause
\* and remove answer with an error (an exception in the caller) for a gid
\* that is not in a state the method applies to.
CanPause(js, g) == g \in DOMAIN js /\ js[g].status = "active"
CanUnpause(js, g) == g \in DOMAIN js /\ js[g].status = "paused"
CanRemove(js, g) == g \in DOMAIN js /\ js[g].status \in {"active", "paused"}

DaemonPause(js, g) == [js EXCEPT ![g].status = "paused"]
DaemonUnpause(js, g) == [js EXCEPT ![g].status = "active"]
DaemonRemove(js, g) == [js EXCEPT ![g].status = "removed"]

Rpc(m, g) == <<m, g>>

\* for gid in gids: try: self.aria2.pause(gid) except: pass
RECURSIVE PauseAll(_, _)
PauseAll(js, gids) ==
  IF gids = << >> THEN js
  ELSE PauseAll(IF CanPause(js, Head(gids)) THEN DaemonPause(js, Head(gids))
                ELSE js, Tail(gids))

\* for gid in gids: try: self.aria2.remove(gid) except: pass
RECURSIVE RemoveAll(_, _)
RemoveAll(js, gids) ==
  IF gids = << >> THEN js
  ELSE RemoveAll(IF CanRemove(js, Head(gids))
                 THEN DaemonRemove(js, Head(gids)) ELSE js, Tail(gids))

\* for gid in gids: self.aria2.unpause(gid) -- the first failing call
\* raises and ends the loop.
RECURSIVE UnpauseLoop(_, _, _)
UnpauseLoop(js, gids, rpc) ==
  IF gids = << >> THEN [jobs |-> js, ok |-> TRUE, rpc |-> rpc]
  ELSE IF CanUnpause(js, Head(gids))
       THEN UnpauseLoop(DaemonUnpause(js, Head(gids)), Tail(gids),
                        Append(rpc, Rpc("unpause", Head(gids))))
       ELSE [jobs |-> js, ok |-> FALSE,
             rpc |-> Append(rpc, Rpc("unpause", Head(gids)))]

CallsOn(m, gids) == [i \in 1..Len(gids) |-> Rpc(m, gids[i])]

\* The rest of cancel_download: kill the worker process and drop its entry,
\* or else pause/remove the recorded aria2 jobs; then notify, save and
\* return True.
CancelFinish(c) ==
  /\ c \in calls /\ c.op = "cancel"
  /\ LET t == c.task
         ret == IF c.arg = PAUSED THEN "pause" ELSE "cancel" IN
     IF t \in DOMAIN processes
     THEN /\ workers' = Terminate(workers, processes[t])
          /\ processes' = Del(processes, t)
          /\ last' = Act(ret, t, True, c.was)
          /\ UNCHANGED <<aria2_gids, jobs>>
     ELSE IF t \in DOMAIN aria2_gids
     THEN /\ jobs' = IF c.arg = PAUSED THEN PauseAll(jobs, aria2_gids[t])
                     ELSE RemoveAll(jobs, aria2_gids[t])
          /\ aria2_gids' = IF c.arg # PAUSED THEN Del(aria2_gids, t)
                           ELSE aria2_gids
          /\ last' = ActRpc(ret, t, True, c.was,
                            CallsOn(IF c.arg = PAUSED THEN "pause"
                                    ELSE "remove", aria2_gids[t]))
          /\ UNCHANGED <<workers, processes>>
     ELSE /\ last' = Act(ret, t, True, c.was)
          /\ UNCHANGED <<workers, processes, aria2_gids, jobs>>
  /\ saved' = SaveQueue(tasks)
  /\ calls' = calls \ {c}
  /\ UNCHANGED <<tasks, msg_queue, monitors, dispatches, config, disk, clock>>

\* ------------------------------------------------- download_worker_entry
Msg(type, t, val) == [type |-> type, task_id |-> t, val |-> val]

Room(n) == Len(msg_queue) + n <= MaxQueue

WorkerAt(p, pc) ==
  /\ p \in DOMAIN workers
  /\ workers[p].alive
  /\ workers[p].pc = pc

\* api.repo_info and the 'meta' event; a failure is logged and ignored.
WorkerMeta(p) ==
  /\ WorkerAt(p, "meta")
  /\ \/ /\ Room(1)
        /\ msg_queue' = Append(msg_queue,
                               Msg("meta", workers[p].task, RepoSize))
     \/ UNCHANGED msg_queue
  /\ workers' = [workers EXCEPT ![p].pc = "transfer", ![p].attempts = 1]
  /\ last' = Internal
  /\ UNCHANGED <<tasks, processes, calls, saved, method, auto_resume,
                 use_hf_transfer, restarts, disk, clock, ariaVars>>

\* IPCDownloadProgress.update / __init__(initial=...): a byte-unit
\* 'progress' event.  A restarted transfer reports the bytes already on
\* disk again as the initial value of its bar.
WorkerProgress(p) ==
  /\ WorkerAt(p, "transfer")
  /\ workers[p].sent < MaxSent
  /\ Room(1)
  /\ msg_queue' = Append(msg_queue, Msg("progress", workers[p].task, 1))
  /\ workers' = [workers EXCEPT ![p].sent = @ + 1]
  /\ last' = Internal
  /\ UNCHANGED <<tasks, processes, calls, saved, method, auto_resume,
                 use_hf_transfer, restarts, disk, clock, ariaVars>>

\* folder_monitor_loop: the absolute size found on disk, sent only when
\* hf_transfer is requested.
WorkerMonitorUpdate(p) ==
  /\ WorkerAt(p, "transfer")
  /\ use_hf_transfer
  /\ workers[p].sent < MaxSent
  /\ Room(1)
  /\ \E size \in 1..MaxBytes :
       msg_queue' = Append(msg_queue,
                           Msg("monitor_update", workers[p].task, size))
  /\ workers' = [workers EXCEPT ![p].sent = @ + 1]
  /\ last' = Internal
  /\ UNCHANGED <<tasks, processes, calls, saved, method, auto_resume,
                 use_hf_transfer, restarts, disk, clock, ariaVars>>

\* snapshot_download returned: 'status_change' to verifying.
WorkerTransferDone(p) ==
  /\ WorkerAt(p, "transfer")
  /\ Room(1)
  /\ msg_queue' = Append(msg_queue,
                         Msg("status_change", workers[p].task, VERIFYING))
  /\ workers' = [workers EXCEPT ![p].pc = "verify"]
  /\ last' = Internal
  /\ UNCHANGED <<tasks, processes, calls, saved, method, auto_resume,
                 use_hf_transfer, restarts, disk, clock, ariaVars>>

\* A retry that is also granted after the unaccelerated attempt.
RetryAllowedTwice(w) == use_hf_transfer /\ w.attempts <= 2

\* except Exception: if use_hf_transfer -- in the handler of the first
\* attempt_download only.
RetryAllowed(w) == use_hf_transfer /\ w.attempts = 1

\* attempt_download(use_hf_transfer) raised: acceleration is switched off
\* and attempt_download(False) runs.
WorkerFallback(p) ==
  /\ WorkerAt(p, "transfer")
  /\ RetryAllowed(workers[p])
  /\ workers' = [workers EXCEPT ![p].attempts = @ + 1]
  /\ last' = Internal
  /\ UNCHANGED <<tasks, processes, msg_queue, calls, saved, method,
                 auto_resume, use_hf_transfer, restarts, disk, clock, ariaVars>>

\* An exception in the transfer that is not retried, or in the verifier: the
\* inner handler puts 'error' and re-raises, the outer handler puts 'error'
\* again.
WorkerError(p) ==
  /\ \/ WorkerAt(p, "transfer") /\ ~RetryAllowed(workers[p])
     \/ WorkerAt(p, "verify")
  /\ Room(2)
  /\ msg_queue' = msg_queue \o
       << Msg("error", workers[p].task, "worker_error"),
          Msg("error", workers[p].task, "worker_error") >>
  /\ workers' = [workers EXCEPT ![p] = Exited(@)]
  /\ last' = Internal
  /\ UNCHANGED <<tasks, processes, calls, saved, method, auto_resume,
                 use_hf_transfer, restarts, disk, clock, ariaVars>>

\* verifier.verify_repo returned: 'completed' or 'verification_failed'.
WorkerVerified(p) ==
  /\ WorkerAt(p, "verify")
  /\ Room(1)
  /\ \E type \in {"completed", "verification_failed"} :
       msg_queue' = Append(msg_queue,
         Msg(type, workers[p].task,
             IF type = "completed" THEN None ELSE "verification_failed"))
  /\ workers' = [workers EXCEPT ![p] = Exited(@)]
  /\ last' = Internal
  /\ UNCHANGED <<tasks, processes, calls, saved, method, auto_resume,
                 use_hf_transfer, restarts, disk, clock, ariaVars>>

\* ------------------------------------------------- _monitor_queue_loop
\* The effect of one message on the task it addresses.
ApplyMonitorUpdate(task, new_size) ==
  IF new_size > task.downloaded_size
  THEN [task EXCEPT
          !.downloaded_size = new_size,
          !.progress = IF task.total_size > 0
                       THEN Percent(new_size, task.total_size) ELSE @]
  ELSE task

ApplyProgress(task, inc) ==
  [task EXCEPT
     !.downloaded_size = @ + inc,
     !.progress = IF task.total_size > 0
                  THEN Percent(task.downloaded_size + inc, task.total_size)
                  ELSE @]

ApplyStatusChange(task, new_status) ==
  IF new_status = VERIFYING THEN [task EXCEPT !.status = VERIFYING] ELSE task

\* A completion that leaves the progress where the events brought it.
ApplyCompletedKeepProgress(task) == [task EXCEPT !.status = COMPLETED]

ApplyCompleted(task) ==
  [task EXCEPT !.status = COMPLETED, !.progress = 100]

ApplyError(task, message) ==
  [task EXCEPT !.status = FAILED, !.error_message = message]

ApplyMsg(task, msg) ==
  CASE msg.type = "meta" -> [task EXCEPT !.total_size = msg.val]
    [] msg.type = "monitor_update" -> ApplyMonitorUpdate(task, msg.val)
    [] msg.type = "progress" -> ApplyProgress(task, msg.val)
    [] msg.type = "status_change" -> ApplyStatusChange(task, msg.val)
    [] msg.type = "completed" -> ApplyCompleted(task)
    [] msg.type \in {"error", "verification_failed"} ->
         ApplyError(task, msg.val)
    [] OTHER -> task

Finalizing == {"completed", "error", "verification_failed"}

\* One pass of the loop body: take a message, find its task, apply it; the
\* finalizing messages also drop the process entry and save the queue.
MonitorQueue ==
  /\ msg_queue # << >>
  /\ LET msg == Head(msg_queue)
         t == msg.task_id IN
       /\ msg_queue' = Tail(msg_queue)
       /\ IF t \notin DOMAIN tasks
          THEN UNCHANGED <<tasks, processes, saved>>
          ELSE /\ tasks' = [tasks EXCEPT ![t] = ApplyMsg(tasks[t], msg)]
               /\ IF msg.type \in Finalizing
                  THEN /\ processes' = IF t \in DOMAIN processes
                                       THEN Del(processes, t) ELSE processes
                       /\ saved' = SaveQueue(tasks')
                  ELSE UNCHANGED <<processes, saved>>
       /\ last' = Internal
  /\ UNCHANGED <<workers, calls, method, auto_resume, use_hf_transfer,
                 restarts, disk, clock, ariaVars>>

\* ------------------------------------------------ _dispatch_aria2_task
\* The except branch of _dispatch_aria2_task.
DispatchFailed(ts, t) ==
  [ts EXCEPT ![t].status = FAILED, ![t].error_message = "aria2_dispatch"]

\* A dispatch that ignores the recorded gids.
HasGidsNever(t) == FALSE

\* "Smart Resume": the task has recorded gids.
HasGids(t) == t \in DOMAIN aria2_gids

\* One job per file of the listing, as the daemon creates it for addUri.
NewJobs(files) == [i \in 1..Len(files) |->
                     [status |-> "active", done |-> 0, total |-> files[i]]]

NewGids(js, files) == [i \in 1..Len(files) |-> Len(js) + i]

\* range(0, len(files_to_download), batch_size): the number of addUri
\* multicalls the dispatch makes.
NumBatches(files) == (Len(files) + BatchSize - 1) \div BatchSize

\* The rest of start_download in ARIA2 mode, run by the thread pool, for a
\* repository whose listing, filtered by the task's patterns, is files.
DispatchFiles(c, files) ==
  /\ c \in calls /\ c.op = "start"
  /\ method = "ARIA2"
  /\ calls' = calls \ {c}
  /\ LET t == c.task IN
     IF t \notin DOMAIN tasks
     THEN /\ last' = Act("dispatch", t, None, None)
          /\ UNCHANGED <<tasks, ariaVars>>
     ELSE IF HasGids(t)
     THEN LET r == UnpauseLoop(jobs, aria2_gids[t], << >>) IN
          /\ jobs' = r.jobs
          /\ tasks' = IF r.ok THEN tasks ELSE DispatchFailed(tasks, t)
          /\ last' = ActRpc("dispatch", t, IF r.ok THEN "resumed" ELSE "failed",
                            None, r.rpc)
          /\ UNCHANGED <<aria2_gids, monitors, dispatches>>
     ELSE \/ /\ tasks' = DispatchFailed(tasks, t)   \* repo_info raised
             /\ last' = Act("dispatch", t, "failed", None)
             /\ UNCHANGED ariaVars
          \/ /\ dispatches < MaxDispatches         \* a multicall raised
             /\ \E k \in 0..(NumBatches(files) - 1) :
                  LET accepted == SubSeq(files, 1, k * BatchSize) IN
                  /\ tasks' = DispatchFailed(
                       [tasks EXCEPT ![t].total_size = SumSeq(files)], t)
                  /\ jobs' = jobs \o NewJobs(accepted)
                  /\ last' = ActRpc("dispatch", t, "add_failed", None,
                                    CallsOn("addUri", NewGids(jobs, accepted)))
             /\ dispatches' = dispatches + 1
             /\ UNCHANGED <<aria2_gids, monitors>>
          \/ /\ dispatches < MaxDispatches
             /\ LET gids == NewGids(jobs, files) IN
                /\ tasks' = [tasks EXCEPT ![t].total_size = SumSeq(files)]
                /\ jobs' = jobs \o NewJobs(files)
                /\ aria2_gids' = Put(aria2_gids, t, gids)
                /\ monitors' = monitors \cup {[task |-> t, gids |-> gids]}
                /\ dispatches' = dispatches + 1
                /\ last' = ActRpc("dispatch", t, "added", None,
                                  CallsOn("addUri", gids))
  /\ UNCHANGED <<pyVars, saved, config, disk, clock>>

\* The dispatch for a task whose patterns keep the whole listing.
DispatchAria2(c) == DispatchFiles(c, FileSizes)

\* ------------------------------------------------------ the daemon's work
JobProgress(g) ==
  /\ g \in DOMAIN jobs
  /\ jobs[g].status = "active"
  /\ jobs[g].done < jobs[g].total
  /\ jobs' = [jobs EXCEPT ![g].done = @ + 1]
  /\ last' = Internal
  /\ UNCHANGED <<tasks, pyVars, calls, saved, config, disk, clock, aria2_gids, monitors,
                 dispatches>>

JobEnd(g) ==
  /\ g \in DOMAIN jobs
  /\ jobs[g].status = "active"
  /\ \/ /\ jobs[g].done = jobs[g].total
        /\ jobs' = [jobs EXCEPT ![g].status = "complete"]
     \/ jobs' = [jobs EXCEPT ![g].status = "error"]
  /\ last' = Internal
  /\ UNCHANGED <<tasks, pyVars, calls, saved, config, disk, clock, aria2_gids, monitors,
                 dispatches>>

\* ------------------------------------------------- _monitor_aria2_task
RECURSIVE SumOf(_, _)
SumOf(statuses, field) ==
  IF statuses = << >> THEN 0
  ELSE Head(statuses)[field] + SumOf(Tail(statuses), field)

Statuses(gids) == [i \in 1..Len(gids) |-> jobs[gids[i]]]

\* The "Update Progress" block of one poll.
PollProgress(task, total_done, total_len) ==
  LET denom == IF task.total_size > 0 THEN task.total_size ELSE total_len IN
  [task EXCEPT !.downloaded_size = total_done,
               !.progress = IF denom > 0 THEN Percent(total_done, denom)
                            ELSE @]

\* The terminal conditions one poll reconciles.
PollFinish(task, gids, any_failed, all_completed, total_len) ==
  LET denom == IF task.total_size > 0 THEN task.total_size ELSE total_len IN
  IF any_failed
  THEN [task EXCEPT !.status = FAILED, !.error_message = "aria2_error"]
  ELSE IF all_completed /\ Len(gids) > 0
  THEN [task EXCEPT !.status = COMPLETED, !.progress = 100,
                    !.downloaded_size = denom]
  ELSE task

\* One round of the polling loop of the monitor thread m.  The status
\* multicall of the (single) batch either answers or raises; a batch that
\* raised contributes no status.
MonitorAria2(m) ==
  /\ m \in monitors
  /\ \E answered \in BOOLEAN :
     LET t == m.task
         statuses == IF answered THEN Statuses(m.gids) ELSE << >>
         total_done == SumOf(statuses, "done")
         total_len == SumOf(statuses, "total")
         any_failed == \E i \in DOMAIN statuses : statuses[i].status = "error"
         all_completed ==
           \A i \in DOMAIN statuses : statuses[i].status = "complete"
         active_gids ==
           Cardinality({i \in DOMAIN statuses : statuses[i].status = "active"})
     IN
     IF t \notin DOMAIN tasks
     THEN /\ monitors' = monitors \ {m}
          /\ last' = Internal
          /\ UNCHANGED <<tasks, jobs, saved>>
     ELSE IF tasks[t].status = CANCELLED
     THEN /\ jobs' = RemoveAll(jobs, m.gids)
          /\ monitors' = monitors \ {m}
          /\ last' = Internal
          /\ UNCHANGED <<tasks, saved>>
     ELSE IF tasks[t].status = PAUSED
     THEN /\ jobs' = IF active_gids > 0 THEN PauseAll(jobs, m.gids) ELSE jobs
          /\ last' = Internal
          /\ UNCHANGED <<tasks, monitors, saved>>
     ELSE LET task == PollFinish(
                        PollProgress(tasks[t], total_done, total_len),
                        m.gids, any_failed, all_completed, total_len)
              exits == any_failed \/ (all_completed /\ Len(m.gids) > 0) IN
          /\ tasks' = [tasks EXCEPT ![t] = task]
          /\ monitors' = IF exits THEN monitors \ {m} ELSE monitors
          /\ saved' = IF ~any_failed /\ all_completed /\ Len(m.gids) > 0
                      THEN SaveQueue(tasks') ELSE saved
          /\ last' = Internal
          /\ UNCHANGED jobs
  /\ UNCHANGED <<pyVars, calls, config, disk, clock, aria2_gids, dispatches>>

\* ---------------------------------------- dispatch of a filtered listing
\* The listing after the task's include and exclude patterns: every file,
\* or none.
Listings == {FileSizes, << >>}

InitPoll == Init /\ method = "ARIA2"

\* A task is queued, started and dispatched; the daemon works on its jobs
\* and the monitor thread polls them.
NextPoll ==
  \/ \E t \in TaskIds : QueueDownload(t)
  \/ \E t \in TaskIds : StartDownload(t)
  \/ \E c \in calls, files \in Listings : DispatchFiles(c, files)
  \/ \E g \in DOMAIN jobs : JobProgress(g)
  \/ \E g \in DOMAIN jobs : JobEnd(g)
  \/ \E m \in monitors : MonitorAria2(m)

\* The monitor thread keeps polling and every job the daemon holds ends.
SpecPoll ==
  /\ InitPoll
  /\ [][NextPoll]_vars
  /\ WF_vars(\E m \in monitors : MonitorAria2(m))
  /\ \A g \in 1..(Len(FileSizes) * MaxDispatches) : WF_vars(JobEnd(g))

\* ------------------------------------------------------- remove_task
\* remove_task(task_id): cancel_download(task_id) first.  This is its part
\* under self._task_lock; for an unknown id both lookups fail and the call
\* returns False.
RemoveTask(t) ==
  /\ InFlight("remove") < MaxCalls
  /\ IF t \in DOMAIN tasks
     THEN /\ tasks' = [tasks EXCEPT
                         ![t].status = CancelStatus(tasks[t].status, CANCELLED)]
          /\ calls' = calls \cup {Call("remove", t, "stop",
                                       IsActive(tasks[t].status))}
          /\ last' = Internal
     ELSE /\ UNCHANGED <<tasks, calls>>
          /\ last' = Act("remove", t, False, None)
  /\ UNCHANGED <<processes, workers, msg_queue, saved, method, auto_resume,
                 use_hf_transfer, restarts, disk, clock, ariaVars>>

\* The rest of that cancel_download: kill the worker or remove the aria2
\* jobs, then save.
RemoveStop(c) ==
  /\ c \in calls /\ c.op = "remove" /\ c.arg = "stop"
  /\ LET t == c.task IN
     IF t \in DOMAIN processes
     THEN /\ workers' = Terminate(workers, processes[t])
          /\ processes' = Del(processes, t)
          /\ UNCHANGED <<aria2_gids, jobs>>
     ELSE IF t \in DOMAIN aria2_gids
     THEN /\ jobs' = RemoveAll(jobs, aria2_gids[t])
          /\ aria2_gids' = Del(aria2_gids, t)
          /\ UNCHANGED <<workers, processes>>
     ELSE UNCHANGED <<workers, processes, aria2_gids, jobs>>
  /\ saved' = SaveQueue(tasks)
  /\ calls' = (calls \ {c}) \cup {[c EXCEPT !.arg = "delete"]}
  /\ last' = Internal
  /\ UNCHANGED <<tasks, msg_queue, monitors, dispatches, config, disk, clock>>

\* The second part of remove_task under self._task_lock: delete the task
\* and save (delete_files is False here).
RemoveFinish(c) ==
  /\ c \in calls /\ c.op = "remove" /\ c.arg = "delete"
  /\ IF c.task \in DOMAIN tasks
     THEN /\ tasks' = Del(tasks, c.task)
          /\ saved' = SaveQueue(tasks')
          /\ last' = Act("remove", c.task, True, c.was)
     ELSE /\ UNCHANGED <<tasks, saved>>
          /\ last' = Act("remove", c.task, False, c.was)
  /\ calls' = calls \ {c}
  /\ UNCHANGED <<pyVars, config, disk, clock, ariaVars>>

\* --------------------------------------------------- clear_completed
TerminalAlsoPaused == {COMPLETED, FAILED, CANCELLED, PAUSED}

\* terminal_statuses
Terminal == {COMPLETED, FAILED, CANCELLED}

\* clear_completed: returns the number of tasks removed.
ClearCompleted ==
  LET to_remove == {t \in DOMAIN tasks : tasks[t].status \in Terminal} IN
  /\ tasks' = [t \in DOMAIN tasks \ to_remove |-> tasks[t]]
  /\ saved' = SaveQueue(tasks')
  /\ last' = Act("clear", None, ToString(Cardinality(to_remove)), None)
  /\ UNCHANGED <<pyVars, calls, config, disk, clock, ariaVars>>

\* ------------------------------------------------ shutdown, load_queue
\* The application is shut down (every recorded process is terminated) and
\* constructed again: the registry is what load_queue reads from disk.
Restart ==
  /\ restarts < MaxRestarts
  /\ calls = {}
  /\ restarts' = restarts + 1
  /\ workers' = [p \in DOMAIN workers |->
                   IF \E t \in DOMAIN processes : processes[t] = p
                   THEN Exited(workers[p]) ELSE workers[p]]
  /\ processes' = << >>
  /\ msg_queue' = << >>
  /\ tasks' = [t \in DOMAIN saved |-> LoadTask(saved[t], auto_resume)]
  /\ last' = Internal
  /\ calls' = IF auto_resume
              THEN {Call("auto_resume", None, None, FALSE)} ELSE {}
  /\ UNCHANGED <<saved, method, auto_resume, use_hf_transfer, disk, clock>>
  /\ aria2_gids' = << >> /\ jobs' = << >> /\ monitors' = {}
  /\ dispatches' = 0

\* --------------------------------------------------------------- Next
Next ==
  \/ \E t \in TaskIds : QueueDownload(t)
  \/ \E t \in TaskIds : StartDownload(t)
  \/ \E c \in calls : SpawnProcess(c)
  \/ \E t \in TaskIds, st \in {PAUSED, CANCELLED} : CancelDownload(t, st)
  \/ \E c \in calls : CancelFinish(c)
  \/ \E p \in DOMAIN workers : WorkerMeta(p)
  \/ \E p \in DOMAIN workers : WorkerProgress(p)
  \/ \E p \in DOMAIN workers : WorkerMonitorUpdate(p)
  \/ \E p \in DOMAIN workers : WorkerFallback(p)
  \/ \E p \in DOMAIN workers : WorkerTransferDone(p)
  \/ \E p \in DOMAIN workers : WorkerError(p)
  \/ \E p \in DOMAIN workers : WorkerVerified(p)
  \/ MonitorQueue
  \/ \E c \in calls : DispatchAria2(c)
  \/ \E g \in DOMAIN jobs : JobProgress(g)
  \/ \E g \in DOMAIN jobs : JobEnd(g)
  \/ \E m \in monitors : MonitorAria2(m)
  \/ Restart

Spec == Init /\ [][Next]_vars

\* ------------------------------------------------ _auto_resume_tasks
\* The thread load_queue starts under auto-resume: it collects, under the
\* lock, the ids of the PENDING tasks.
AutoResumeTasks(c) ==
  /\ c \in calls /\ c.op = "auto_resume"
  /\ calls' = (calls \ {c}) \cup
       {Call("auto_start", k, None, FALSE) :
          k \in {t \in DOMAIN tasks : tasks[t].status = PENDING}}
  /\ last' = Internal
  /\ UNCHANGED <<tasks, pyVars, saved, config, disk, clock, ariaVars>>

\* for k in keys: self.start_download(k) -- the part under the lock.
AutoResumeStart(c) ==
  /\ c \in calls /\ c.op = "auto_start"
  /\ InFlight("start") < MaxCalls
  /\ LET t == c.task IN
     IF t \in DOMAIN tasks /\ StartAllowed(tasks[t].status)
     THEN /\ tasks' = [tasks EXCEPT ![t].status = DOWNLOADING,
                                    ![t].error_message = None]
          /\ calls' = (calls \ {c}) \cup {Call("start", t, None, FALSE)}
          /\ last' = Act("auto_start", t, True, tasks[t].status)
     ELSE /\ UNCHANGED tasks
          /\ calls' = calls \ {c}
          /\ last' = Act("auto_start", t, False, StatusOf(tasks, t))
  /\ UNCHANGED <<pyVars, saved, config, disk, clock, ariaVars>>

\* The application started on a queue file written by an earlier run, with
\* either setting of 'auto_resume_incomplete': the file holds up to two
\* records, each in any status.
LoadIds == {"t1", "t2"}

SavedRecords ==
  {SerializeTask(DownloadTask(st, tot, done,
                              IF st = FAILED THEN "worker_error" ELSE None)) :
     st \in DownloadStatus, tot \in {0, RepoSize}, done \in {0, 1}}

InitLoad ==
  /\ tasks = << >>
  /\ processes = << >>
  /\ workers = << >>
  /\ msg_queue = << >>
  /\ calls = {}
  /\ saved \in UNION {[S -> SavedRecords] : S \in SUBSET LoadIds}
  /\ method \in {"PYTHON", "ARIA2"}
  /\ auto_resume \in BOOLEAN
  /\ use_hf_transfer = FALSE
  /\ restarts = 0
  /\ aria2_gids = << >>
  /\ jobs = << >>
  /\ monitors = {}
  /\ dispatches = 0
  /\ disk = [n \in Paths |-> Absent]
  /\ now = 0
  /\ speed_tracker = << >>
  /\ event_times = << >>
  /\ last = Act("init", None, None, None)

\* The load, the auto-resume thread and the starts it makes.
NextLoad ==
  \/ Restart
  \/ \E c \in calls : AutoResumeTasks(c)
  \/ \E c \in calls : AutoResumeStart(c)
  \/ \E c \in calls : SpawnProcess(c)
  \/ \E c \in calls : DispatchAria2(c)

SpecLoad == InitLoad /\ [][NextLoad]_vars

\* ------------------------------------------- removal of tasks: Next
\* The engine with remove_task and clear_completed as the calls that stop
\* and delete tasks, within one run of the application.
NextRemove ==
  \/ \E t \in TaskIds : QueueDownload(t)
  \/ \E t \in TaskIds : StartDownload(t)
  \/ \E c \in calls : SpawnProcess(c)
  \/ \E t \in TaskIds : RemoveTask(t)
  \/ \E c \in calls : RemoveStop(c)
  \/ \E c \in calls : RemoveFinish(c)
  \/ ClearCompleted
  \/ \E p \in DOMAIN workers : WorkerMeta(p)
  \/ \E p \in DOMAIN workers : WorkerProgress(p)
  \/ \E p \in DOMAIN workers : WorkerMonitorUpdate(p)
  \/ \E p \in DOMAIN workers : WorkerFallback(p)
  \/ \E p \in DOMAIN workers : WorkerTransferDone(p)
  \/ \E p \in DOMAIN workers : WorkerError(p)
  \/ \E p \in DOMAIN workers : WorkerVerified(p)
  \/ MonitorQueue
  \/ \E c \in calls : DispatchAria2(c)
  \/ \E g \in DOMAIN jobs : JobProgress(g)
  \/ \E g \in DOMAIN jobs : JobEnd(g)
  \/ \E m \in monitors : MonitorAria2(m)

SpecRemove == Init /\ [][NextRemove]_vars

\* ------------------------------------------ clear_completed on a registry
\* clear_completed applied to the registries of up to three tasks, each in
\* any status, with the persisted queue in step.
ClearIds == {"t1", "t2", "t3"}

RegistryTask(st) ==
  DownloadTask(st, 0, 0, IF st = FAILED THEN "worker_error" ELSE None)

InitClear ==
  /\ tasks \in UNION {[S -> {RegistryTask(st) : st \in DownloadStatus}] :
                        S \in SUBSET ClearIds}
  /\ saved = SaveQueue(tasks)
  /\ processes = << >>
  /\ workers = << >>
  /\ msg_queue = << >>
  /\ calls = {}
  /\ method \in {"PYTHON", "ARIA2"}
  /\ auto_resume = FALSE
  /\ use_hf_transfer = FALSE
  /\ restarts = 0
  /\ aria2_gids = << >>
  /\ jobs = << >>
  /\ monitors = {}
  /\ dispatches = 0
  /\ disk = [n \in Paths |-> Absent]
  /\ now = 0
  /\ speed_tracker = << >>
  /\ event_times = << >>
  /\ last = Act("init", None, None, None)

NextClear == ClearCompleted

SpecClear == InitClear /\ [][NextClear]_vars

\* =====================================================================
\* The target directory: queue_download's resolution of it, the backend's
\* writes into it and remove_task's deletion, over the directories of one
\* download root.  A task of this part carries, besides the fields above,
\* local_dir, resolved_local_dir, include_patterns and result_path.
\* =====================================================================
MaxTasks == 1        \* tasks in the registry at once

\* local_dir is None (the default cache is used) or the download root.
Root == "root"
\* A resolved_local_dir or result_path that is None.
NoDir == 0 - 1

\* target_path.exists() and any(target_path.iterdir())
Occupied(d, n) == n \in DOMAIN d /\ d[n].exists /\ d[n].files # {}

\* A duplicate check that never finds a control file.
HasAria2Never(d, n) == FALSE

\* any(target_path.glob("*.aria2"))
HasAria2(d, n) == "model.bin.aria2" \in d[n].files

\* A rename search that does not stop at a control file.
RECURSIVE RenameTargetNoMarker(_, _)
RenameTargetNoMarker(d, n) ==
  IF Occupied(d, n) THEN RenameTargetNoMarker(d, n + 1) ELSE n

\* duplicate_action == 'rename': the while loop over base, base_1, ...
RECURSIVE RenameTarget(_, _)
RenameTarget(d, n) ==
  IF Occupied(d, n) /\ ~HasAria2(d, n) THEN RenameTarget(d, n + 1) ELSE n

\* The resolution of the target directory for a non-empty local_dir: the
\* path, and whether DuplicateDownloadError is raised.
ResolveTarget(d, action) ==
  IF action = "rename"
  THEN [raised |-> FALSE, path |-> RenameTarget(d, 0)]
  ELSE [raised |-> action = "check" /\ Occupied(d, 0) /\ ~HasAria2(d, 0),
        path |-> 0]

Patterns == {<< >>, <<"*.bin">>}

\* fnmatch(rel_path, pattern) or fnmatch(file, pattern), over Files.
Matches(f, patterns) ==
  \E i \in 1..Len(patterns) : patterns[i] = "*.bin" /\ f = "model.bin"

\* The md5 of the request parameters and the resolved directory.
TaskId(patterns, resolved) == <<patterns, resolved>>

DirTask(local_dir, resolved, patterns) ==
  DownloadTask(PENDING, 0, 0, None) @@
  [local_dir |-> local_dir, resolved_local_dir |-> resolved,
   include_patterns |-> patterns, result_path |-> NoDir]

\* queue_download(local_dir, include_patterns, duplicate_action).
QueueDownloadTo(local_dir, patterns, action) ==
  LET r == IF local_dir = None THEN [raised |-> FALSE, path |-> NoDir]
           ELSE ResolveTarget(disk, action)
      id == TaskId(patterns, r.path) IN
  /\ IF r.raised
     THEN /\ last' = Act("queue", id, "DuplicateDownloadError", r.path)
          /\ UNCHANGED <<tasks, saved>>
     ELSE /\ id \in DOMAIN tasks \/ Cardinality(DOMAIN tasks) < MaxTasks
          /\ tasks' = Put(tasks, id, DirTask(local_dir, r.path, patterns))
          /\ saved' = SaveQueue(tasks')
          /\ last' = Act("queue", id, "queued", r.path)
  /\ UNCHANGED <<pyVars, calls, config, disk, clock, ariaVars>>

\* The directory the backend writes to: _spawn_process passes
\* resolved_local_dir to the worker (None: the default cache), while
\* _dispatch_aria2_task builds the directory from local_dir.
DownloadDir(task) ==
  IF method = "PYTHON" THEN task.resolved_local_dir
  ELSE IF task.local_dir # None THEN 0 ELSE NoDir

\* start_download up to the point where the backend runs; the aria2 dispatch
\* sets result_path from local_dir.
StartTo(t) ==
  /\ t \in DOMAIN tasks /\ StartAllowed(tasks[t].status)
  /\ tasks' = [tasks EXCEPT
       ![t].status = DOWNLOADING,
       ![t].result_path = IF method = "ARIA2" THEN DownloadDir(tasks[t])
                          ELSE @]
  /\ last' = Act("start", t, True, NoDir)
  /\ UNCHANGED <<pyVars, calls, saved, config, disk, clock, ariaVars>>

\* The backend writes a file of the repository into its directory; only
\* aria2 leaves control files.
WriteFile(t) ==
  /\ t \in DOMAIN tasks /\ tasks[t].status = DOWNLOADING
  /\ LET dir == DownloadDir(tasks[t]) IN
     /\ dir \in DOMAIN disk
     /\ \E f \in (IF method = "ARIA2" THEN Files
                  ELSE Files \ {"model.bin.aria2"}) :
          /\ f \notin disk[dir].files
          /\ disk' = [disk EXCEPT ![dir] = Dir(@.files \cup {f})]
  /\ last' = Act("write", t, None, NoDir)
  /\ UNCHANGED <<tasks, pyVars, calls, saved, config, clock, ariaVars>>

\* download_worker_entry: download_path = Path(local_dir) raises TypeError
\* when the worker was given None.
WorkerStartFails(task) == method = "PYTHON" /\ DownloadDir(task) = NoDir

\* The worker's outer except sends the error event before any transfer was
\* attempted, and the monitor loop marks the task FAILED and saves.
FailTo(t) ==
  /\ t \in DOMAIN tasks /\ tasks[t].status = DOWNLOADING
  /\ WorkerStartFails(tasks[t])
  /\ tasks' = [tasks EXCEPT ![t] = ApplyError(@, "worker_error")]
  /\ saved' = SaveQueue(tasks')
  /\ last' = Act("fail", t, None, NoDir)
  /\ UNCHANGED <<pyVars, calls, config, disk, clock, ariaVars>>

\* The transfer and the verification succeeded: in Python mode the
\* download_done event carries the directory snapshot_download returned.
FinishTo(t) ==
  /\ t \in DOMAIN tasks /\ tasks[t].status = DOWNLOADING
  /\ ~WorkerStartFails(tasks[t])
  /\ tasks' = [tasks EXCEPT
       ![t].status = COMPLETED, ![t].progress = 100,
       ![t].result_path = IF method = "PYTHON" THEN DownloadDir(tasks[t])
                          ELSE @]
  /\ saved' = SaveQueue(tasks')
  /\ last' = Act("finish", t, None, NoDir)
  /\ UNCHANGED <<pyVars, calls, config, disk, clock, ariaVars>>

\* remove_task, delete_files: result_path if it is set and exists, else the
\* directory built from local_dir (config 'download_dir' is taken as unset).
DeleteTarget(task, d) ==
  IF task.result_path \in DOMAIN d /\ d[task.result_path].exists
  THEN task.result_path
  ELSE IF task.local_dir # None THEN 0 ELSE NoDir

\* The partial delete (include_patterns given) or shutil.rmtree.
DeleteFiles(task, d) ==
  LET target == DeleteTarget(task, d) IN
  IF target \notin DOMAIN d \/ ~d[target].exists THEN d
  ELSE IF Len(task.include_patterns) > 0
  THEN [d EXCEPT ![target] =
          Dir({f \in @.files : ~Matches(f, task.include_patterns)})]
  ELSE [d EXCEPT ![target] = Absent]

\* remove_task(task_id, delete_files) with no other call in flight.
RemoveTaskFiles(t, delete_files) ==
  /\ IF t \in DOMAIN tasks
     THEN /\ disk' = IF delete_files THEN DeleteFiles(tasks[t], disk)
                     ELSE disk
          /\ tasks' = Del(tasks, t)
          /\ saved' = SaveQueue(tasks')
          /\ last' = Act("remove", t, True, NoDir)
     ELSE /\ UNCHANGED <<tasks, saved, disk>>
          /\ last' = Act("remove", t, False, NoDir)
  /\ UNCHANGED <<pyVars, calls, config, clock, ariaVars>>

DirStates == {Absent} \cup {Dir(fs) : fs \in SUBSET Files}

InitDisk ==
  /\ tasks = << >>
  /\ processes = << >>
  /\ workers = << >>
  /\ msg_queue = << >>
  /\ calls = {}
  /\ saved = << >>
  /\ method \in {"PYTHON", "ARIA2"}
  /\ auto_resume = FALSE
  /\ use_hf_transfer = FALSE
  /\ restarts = 0
  /\ aria2_gids = << >>
  /\ jobs = << >>
  /\ monitors = {}
  /\ dispatches = 0
  /\ disk \in [Paths -> DirStates]
  /\ now = 0
  /\ speed_tracker = << >>
  /\ event_times = << >>
  /\ last = Act("init", TaskId(<< >>, NoDir), None, NoDir)

NextDisk ==
  \/ \E dir \in {None, Root}, p \in Patterns,
        a \in {"check", "overwrite", "rename"} : QueueDownloadTo(dir, p, a)
  \/ \E t \in DOMAIN tasks : StartTo(t)
  \/ \E t \in DOMAIN tasks : WriteFile(t)
  \/ \E t \in DOMAIN tasks : FailTo(t)
  \/ \E t \in DOMAIN tasks : FinishTo(t)
  \/ \E t \in DOMAIN tasks \cup {TaskId(<< >>, NoDir)}, del \in BOOLEAN :
        RemoveTaskFiles(t, del)

SpecDisk == InitDisk /\ [][NextDisk]_vars

\* ------------------------------------------- unexpected process exit
\* The worker process dies without reaching any of its handlers (killed by
\* the operating system, a crash of the interpreter): it puts nothing on
\* the progress channel.
WorkerCrash(p) ==
  /\ p \in DOMAIN workers /\ workers[p].alive
  /\ workers' = [workers EXCEPT ![p] = [Exited(@) EXCEPT !.pc = "crashed"]]
  /\ last' = Internal
  /\ UNCHANGED <<tasks, processes, msg_queue, calls, saved, method,
                 auto_resume, use_hf_transfer, restarts, disk, clock, ariaVars>>

\* A step of a worker process other than its death.
WorkerStep ==
  \E p \in DOMAIN workers :
    \/ WorkerMeta(p) \/ WorkerProgress(p) \/ WorkerMonitorUpdate(p)
    \/ WorkerFallback(p) \/ WorkerTransferDone(p) \/ WorkerError(p)
    \/ WorkerVerified(p)

\* The isolated-process backend with workers that may die; the monitor
\* thread and the live workers keep running.
NextCrash ==
  \/ \E t \in TaskIds : QueueDownload(t)
  \/ \E t \in TaskIds : StartDownload(t)
  \/ \E c \in calls : SpawnProcess(c)
  \/ WorkerStep
  \/ \E p \in DOMAIN workers : WorkerCrash(p)
  \/ MonitorQueue

\* The engine as constructed, with the Python backend configured.
InitCrash == Init /\ method = "PYTHON"

SpecCrash ==
  /\ InitCrash
  /\ [][NextCrash]_vars
  /\ WF_vars(MonitorQueue)
  /\ WF_vars(WorkerStep)

\* =====================================================================
\* Verifier.verify_repo (core/verification.py).  The repository listing is
\* a function from file names to the sha256 of the LFS entry ("none" for a
\* file that is not LFS-tracked); disk maps each name to the local copy:
\* "absent", a content, or "unreadable" (open raises IOError).
\* =====================================================================
RepoFiles == {"model.bin", "vocab.bin", "README.md"}
Contents == {"x", "y"}

\* hashlib.sha256 of a content.
Sha256(c) == IF c = "x" THEN "2d71" ELSE "a1fc"

\* calculate_sha256: the digest, or "" on IOError.
CalculateSha256(local) == IF local = "unreadable" THEN "" ELSE Sha256(local)

\* fnmatch.fnmatch(filename, pat), over RepoFiles.
Fnmatch(f, pat) ==
  \/ pat = "*.bin" /\ f \in {"model.bin", "vocab.bin"}
  \/ pat = "*.md" /\ f = "README.md"

AnyMatch(f, patterns) == \E i \in 1..Len(patterns) : Fnmatch(f, patterns[i])

VerificationResult(valid, corrupted, missing, total, ok) ==
  [valid_files |-> valid, corrupted_files |-> corrupted,
   missing_files |-> missing, total_files |-> total, is_valid |-> ok]

\* A verdict that overlooks missing files.
IsValidIgnoringMissing(corrupted, missing) == corrupted = {}

\* is_valid=(len(corrupted) == 0 and len(missing) == 0)
IsValid(corrupted, missing) == corrupted = {} /\ missing = {}

\* verify_repo: targets, the existence check, the hash comparison.  The
\* three lists are built by one append per target; they are sets here
\* (valid and corrupted are in completion order in the code).
VerifyRepo(siblings, include, exclude, d) ==
  LET targets == {f \in DOMAIN siblings :
                    /\ include # << >> => AnyMatch(f, include)
                    /\ exclude # << >> => ~AnyMatch(f, exclude)
                    /\ siblings[f] # None}
      missing == {f \in targets : d[f] = "absent"}
      files_to_check == targets \ missing
      valid == {f \in files_to_check : CalculateSha256(d[f]) = siblings[f]}
      corrupted == files_to_check \ valid
  IN IF targets = {} THEN VerificationResult({}, {}, {}, 0, TRUE)
     ELSE VerificationResult(valid, corrupted, missing, Cardinality(targets),
                             IsValid(corrupted, missing))

\* A call of verify_repo on some listing with some patterns.
VerifyRepoCall ==
  /\ \E siblings \in [RepoFiles -> {None} \cup {Sha256(c) : c \in Contents}],
        include \in {<< >>, <<"*.bin">>}, exclude \in {<< >>, <<"*.md">>} :
       last' = Act("verify", siblings,
                   VerifyRepo(siblings, include, exclude, disk),
                   <<include, exclude>>)
  /\ UNCHANGED <<tasks, pyVars, calls, saved, config, disk, clock, ariaVars>>

InitVerify ==
  /\ tasks = << >>
  /\ processes = << >>
  /\ workers = << >>
  /\ msg_queue = << >>
  /\ calls = {}
  /\ saved = << >>
  /\ method = "PYTHON"
  /\ auto_resume = FALSE
  /\ use_hf_transfer = FALSE
  /\ restarts = 0
  /\ aria2_gids = << >>
  /\ jobs = << >>
  /\ monitors = {}
  /\ dispatches = 0
  /\ disk \in [RepoFiles -> {"absent", "unreadable"} \cup Contents]
  /\ now = 0
  /\ speed_tracker = << >>
  /\ event_times = << >>
  /\ last = Act("init", [f \in RepoFiles |-> None],
                VerificationResult({}, {}, {}, 0, TRUE), << << >>, << >> >>)

NextVerify == VerifyRepoCall

SpecVerify == InitVerify /\ [][NextVerify]_vars

\* =====================================================================
\* Speed sampling and stall detection (_update_speed, _check_stale_speeds).
\* Time is counted in units of half a second, the timeout of the monitor
\* loop's queue read.  A speed is the fraction delta_bytes / delta_time,
\* kept as the pair of its terms.
\* =====================================================================
MaxTime == 11        \* the clock runs from 0 to MaxTime
MaxEvents == 3       \* progress events handled in one behaviour
MaxInc == 2          \* largest increment of one progress event

\* if delta_time >= 2.0
SpeedInterval == 4
\* if now - tracker['last_time'] > 3.0
StaleAfter == 6

Speed(delta_bytes, delta_time) == <<delta_bytes, delta_time>>
ZeroSpeed == Speed(0, 1)
\* task.speed > 0
Positive(speed) == speed[1] > 0

\* A started task with the speed fields of DownloadTask.
SpeedTask(total) ==
  DownloadTask(DOWNLOADING, total, 0, None) @@
  [speed |-> ZeroSpeed, speed_formatted |-> "", result_path |-> None,
   current_file |-> None]

\* _update_speed(task_id, task, current_size) at time t: the tracker and
\* the task it leaves.
UpdateSpeed(tracker, id, task, current_size, t) ==
  IF id \notin DOMAIN tracker
  THEN [tracker |-> Put(tracker, id,
                        [last_size |-> current_size, last_time |-> t]),
        task |-> task]
  ELSE LET delta_time == t - tracker[id].last_time
           delta_bytes == current_size - tracker[id].last_size IN
       IF delta_time >= SpeedInterval
       THEN [tracker |-> Put(tracker, id,
                             [last_size |-> current_size, last_time |-> t]),
             task |-> IF delta_bytes >= 0
                      THEN [task EXCEPT
                              !.speed = Speed(delta_bytes, delta_time),
                              !.speed_formatted = "rate"]
                      ELSE task]
       ELSE [tracker |-> tracker, task |-> task]

\* now - tracker['last_time'] > 3.0
IsStale(tracker, id, t) == t - tracker[id].last_time > StaleAfter

\* _check_stale_speeds at time t.
CheckStaleSpeeds(ts, tracker, t) ==
  [id \in DOMAIN ts |->
     IF /\ id \in DOMAIN tracker
        /\ IsStale(tracker, id, t)
        /\ Positive(ts[id].speed)
        /\ ts[id].status = DOWNLOADING
     THEN [ts[id] EXCEPT !.speed = ZeroSpeed, !.speed_formatted = "Stalled"]
     ELSE ts[id]]

\* Half a second passes.
Tick ==
  /\ now < MaxTime
  /\ now' = now + 1
  /\ last' = Internal
  /\ UNCHANGED <<tasks, pyVars, calls, saved, config, disk, speed_tracker,
                 event_times, ariaVars>>

\* One pass of the monitor loop that reads a byte-unit 'progress' event:
\* the event is applied, the speed is sampled and the sweep runs.
HandleProgress(t, inc) ==
  /\ t \in DOMAIN tasks
  /\ Len(event_times) < MaxEvents
  /\ LET task == ApplyProgress(tasks[t], inc)
         r == UpdateSpeed(speed_tracker, t, task, task.downloaded_size, now)
     IN /\ speed_tracker' = r.tracker
        /\ tasks' = CheckStaleSpeeds([tasks EXCEPT ![t] = r.task],
                                     r.tracker, now)
  /\ event_times' = Append(event_times, now)
  /\ last' = Internal
  /\ UNCHANGED <<pyVars, calls, saved, config, disk, now, ariaVars>>

\* The directories snapshot_download may return.
ResultPaths == {"cache/snapshots/main", "root/models--repo"}

\* One pass of the monitor loop that reads 'completed': the task is
\* finalized, the queue is saved and the sweep runs.
HandleCompleted(t, result_path) ==
  /\ t \in DOMAIN tasks
  /\ tasks' = CheckStaleSpeeds(
       [tasks EXCEPT ![t] = [ApplyCompleted(@) EXCEPT
                               !.result_path = result_path]],
       speed_tracker, now)
  /\ saved' = SaveQueue(tasks')
  /\ last' = Internal
  /\ UNCHANGED <<pyVars, calls, config, disk, clock, ariaVars>>

\* One pass of the monitor loop whose queue read timed out: the sweep only.
Sweep ==
  /\ tasks' = CheckStaleSpeeds(tasks, speed_tracker, now)
  /\ last' = Internal
  /\ UNCHANGED <<pyVars, calls, saved, config, disk, clock, ariaVars>>

\* A task that start_download has just started in Python mode.
InitStall ==
  /\ tasks \in [TaskIds -> {SpeedTask(total) : total \in {0, RepoSize}}]
  /\ processes = << >>
  /\ workers = << >>
  /\ msg_queue = << >>
  /\ calls = {}
  /\ saved = << >>
  /\ method = "PYTHON"
  /\ auto_resume = FALSE
  /\ use_hf_transfer = FALSE
  /\ restarts = 0
  /\ aria2_gids = << >>
  /\ jobs = << >>
  /\ monitors = {}
  /\ dispatches = 0
  /\ disk = [n \in Paths |-> Absent]
  /\ now = 0
  /\ speed_tracker = << >>
  /\ event_times = << >>
  /\ last = Act("init", None, None, None)

NextStall ==
  \/ Tick
  \/ \E t \in TaskIds, inc \in 0..MaxInc : HandleProgress(t, inc)
  \/ \E t \in TaskIds, path \in ResultPaths : HandleCompleted(t, path)
  \/ Sweep

SpecStall == InitStall /\ [][NextStall]_vars

\* ------------------------------------------------ observer notification
\* self._callbacks: the registered observers, by what a call of each does.
Callbacks == <<"raises", "returns">>

\* _notify_callbacks(task): the observers called, in order; an exception
\* of one is swallowed and the loop goes on.
NotifyCallbacks(task) == [i \in 1..Len(Callbacks) |-> Callbacks[i]]

\* The branch of the monitor loop for one message: the task it leaves and
\* whether the branch calls _notify_callbacks.
HandleMsg(task, msg) ==
  CASE msg.type = "file_start" ->
         IF IsActive(task.status)
         THEN [task |-> [task EXCEPT !.current_file = msg.val],
               notify |-> TRUE]
         ELSE [task |-> task, notify |-> FALSE]
    [] msg.type = "monitor_update" ->
         [task |-> ApplyMsg(task, msg),
          notify |-> msg.val > task.downloaded_size]
    [] msg.type = "download_done" ->
         [task |-> [task EXCEPT !.result_path = msg.val], notify |-> FALSE]
    [] msg.type = "completed" ->
         [task |-> [ApplyMsg(task, msg) EXCEPT !.result_path = msg.val],
          notify |-> TRUE]
    [] msg.type = "total_update" -> [task |-> task, notify |-> FALSE]
    [] OTHER -> [task |-> ApplyMsg(task, msg), notify |-> TRUE]

\* One pass of the monitor loop that reads msg: the branch, the speed
\* sample of the byte events, the save of the finalizing ones, the sweep.
HandleEvent(msg) ==
  LET t == msg.task_id
      h == HandleMsg(tasks[t], msg)
      sampled == msg.type = "progress"
                   \/ (msg.type = "monitor_update" /\ h.notify)
      r == IF sampled
           THEN UpdateSpeed(speed_tracker, t, h.task, h.task.downloaded_size,
                            now)
           ELSE [tracker |-> speed_tracker, task |-> h.task] IN
  /\ t \in DOMAIN tasks
  /\ h.task.downloaded_size <= MaxBytes
  /\ speed_tracker' = r.tracker
  /\ tasks' = CheckStaleSpeeds([tasks EXCEPT ![t] = r.task], r.tracker, now)
  /\ saved' = IF msg.type \in Finalizing THEN SaveQueue(tasks') ELSE saved
  /\ last' = ActRpc(msg.type, t,
                    IF tasks'[t] # tasks[t] THEN "changed" ELSE "same", None,
                    IF h.notify THEN NotifyCallbacks(r.task) ELSE << >>)
  /\ UNCHANGED <<pyVars, calls, config, disk, now, event_times, ariaVars>>

\* The messages a worker sends, and the one it never does.
NextNotify ==
  \E t \in TaskIds :
    \/ \E n \in {RepoSize} : HandleEvent(Msg("meta", t, n))
    \/ \E f \in {"model.bin"} : HandleEvent(Msg("file_start", t, f))
    \/ \E n \in 1..MaxBytes : HandleEvent(Msg("monitor_update", t, n))
    \/ \E n \in 0..MaxInc : HandleEvent(Msg("progress", t, n))
    \/ \E path \in ResultPaths : HandleEvent(Msg("download_done", t, path))
    \/ HandleEvent(Msg("status_change", t, VERIFYING))
    \/ \E path \in ResultPaths : HandleEvent(Msg("completed", t, path))
    \/ \E type \in {"error", "verification_failed"} :
         HandleEvent(Msg(type, t, "worker_error"))
    \/ HandleEvent(Msg("total_update", t, RepoSize))

SpecNotify == InitStall /\ [][NextNotify]_vars

\* =====================================================================
\* cancel_download and the monitor loop at the grain of their accesses to
\* self._processes, which both make without holding self._task_lock: the
\* membership test and the wait for the process (p.join) are one step, the
\* del statement is the next.
\* =====================================================================
\* cancel_download, Python branch: if task_id in self._processes:
\* p.terminate(); p.join(timeout=2); p.kill()
CancelTerminate(c) ==
  /\ c \in calls /\ c.op = "cancel"
  /\ c.task \in DOMAIN processes
  /\ workers' = Terminate(workers, processes[c.task])
  /\ calls' = (calls \ {c}) \cup {[c EXCEPT !.op = "cancel_del"]}
  /\ last' = Internal
  /\ UNCHANGED <<tasks, processes, msg_queue, saved, config, disk, clock,
                 ariaVars>>

\* del self._processes[task_id] (KeyError when the entry is gone), then
\* save_queue and return True.
CancelDel(c) ==
  /\ c \in calls /\ c.op = "cancel_del"
  /\ LET ret == IF c.arg = PAUSED THEN "pause" ELSE "cancel" IN
     IF c.task \in DOMAIN processes
     THEN /\ processes' = Del(processes, c.task)
          /\ saved' = SaveQueue(tasks)
          /\ last' = Act(ret, c.task, True, c.was)
     ELSE /\ UNCHANGED <<processes, saved>>
          /\ last' = Act(ret, c.task, "KeyError", c.was)
  /\ calls' = calls \ {c}
  /\ UNCHANGED <<tasks, workers, msg_queue, config, disk, clock, ariaVars>>

\* The locked part of a cancel_download made while no other one is running.
CancelOne(t, st) == InFlight("cancel_del") < MaxCalls /\ CancelDownload(t, st)

\* cancel_download when the task has no process entry.
CancelNoProcess(c) == c.task \notin DOMAIN processes /\ CancelFinish(c)

\* One pass of the monitor loop up to the del statement of a finalizing
\* event: the message is taken, the task looked up under the lock, the
\* event applied, and if task_id in self._processes: p.join(timeout=1).
MonitorTake ==
  /\ msg_queue # << >>
  /\ InFlight("monitor") = 0
  /\ LET msg == Head(msg_queue)
         t == msg.task_id IN
       /\ msg_queue' = Tail(msg_queue)
       /\ IF t \notin DOMAIN tasks
          THEN UNCHANGED <<tasks, saved, calls>>
          ELSE /\ tasks' = [tasks EXCEPT ![t] = ApplyMsg(tasks[t], msg)]
               /\ IF msg.type \notin Finalizing
                  THEN UNCHANGED <<saved, calls>>
                  ELSE IF t \in DOMAIN processes
                  THEN /\ calls' = calls \cup
                                     {Call("monitor", t, msg.type, FALSE)}
                       /\ UNCHANGED saved
                  ELSE /\ saved' = SaveQueue(tasks')
                       /\ UNCHANGED calls
  /\ last' = Internal
  /\ UNCHANGED <<processes, workers, config, disk, clock, ariaVars>>

\* del self._processes[task_id], then save_queue; a KeyError is caught by
\* the loop's except Exception, which skips the save.
MonitorCleanup(c) ==
  /\ c \in calls /\ c.op = "monitor"
  /\ IF c.task \in DOMAIN processes
     THEN /\ processes' = Del(processes, c.task)
          /\ saved' = SaveQueue(tasks)
          /\ last' = Internal
     ELSE /\ UNCHANGED <<processes, saved>>
          /\ last' = Act("monitor", c.task, "KeyError", None)
  /\ calls' = calls \ {c}
  /\ UNCHANGED <<tasks, workers, msg_queue, config, disk, clock, ariaVars>>

NextRace ==
  \/ \E t \in TaskIds : QueueDownload(t)
  \/ \E t \in TaskIds : StartDownload(t)
  \/ \E c \in calls : SpawnProcess(c)
  \/ \E t \in TaskIds, st \in {PAUSED, CANCELLED} : CancelOne(t, st)
  \/ \E c \in calls : CancelTerminate(c)
  \/ \E c \in calls : CancelDel(c)
  \/ \E c \in calls : CancelNoProcess(c)
  \/ \E p \in DOMAIN workers : WorkerMeta(p)
  \/ \E p \in DOMAIN workers : WorkerTransferDone(p)
  \/ \E p \in DOMAIN workers : WorkerError(p)
  \/ \E p \in DOMAIN workers : WorkerVerified(p)
  \/ MonitorTake
  \/ \E c \in calls : MonitorCleanup(c)

\* The Python backend with acceleration off.
InitRace == InitCrash /\ ~use_hf_transfer

\* One thread calls pause_download and cancel_download, and the workers'
\* progress reports are left out.
SpecRace == InitRace /\ [][NextRace]_vars

\* =====================================================================
\* Properties
\* =====================================================================
StatusIn(t, S) == t \in DOMAIN tasks /\ tasks[t].status \in S

\* C1: start_download returns True exactly when the task exists and is
\* PENDING, PAUSED, FAILED or CANCELLED, and then the task is DOWNLOADING
\* with no error message; otherwise it returns False and the step changes
\* no task, starts no call, no worker process and no aria2 job.
C1_StartContract ==
  [][\A t \in TaskIds :
       (last'.op = "start" /\ last'.task = t) =>
         LET ok == StatusIn(t, {PENDING, PAUSED, FAILED, CANCELLED}) IN
         /\ (last'.ret = True) <=> ok
         /\ ok => /\ tasks'[t].status = DOWNLOADING
                  /\ tasks'[t].error_message = None
         /\ ~ok => /\ last'.ret = False
                   /\ UNCHANGED <<tasks, calls, pyVars, ariaVars, saved>>]_vars

\* C1 witness: a FAILED task carrying an error message was started again.
C1_Witness ==
  /\ last.op = "start" /\ last.ret = True /\ last.pre = FAILED
  /\ tasks[last.task].status = DOWNLOADING

\* C2: for every task, progress is 100 exactly when the status is
\* COMPLETED.
C2_ProgressIffCompleted ==
  \A t \in DOMAIN tasks :
    (tasks[t].progress = 100) <=> (tasks[t].status = COMPLETED)

\* C3: every task's progress lies in [0, 100].
C3_ProgressRange ==
  \A t \in DOMAIN tasks : tasks[t].progress >= 0 /\ tasks[t].progress <= 100

\* C3 witness: more bytes were reported than the known total.
C3_Witness ==
  \E t \in DOMAIN tasks :
    /\ tasks[t].total_size > 0
    /\ tasks[t].downloaded_size > tasks[t].total_size
    /\ tasks[t].progress = 100

\* C4: between two consecutive states in which a task is DOWNLOADING its
\* downloaded_size does not decrease.
C4_BytesMonotone ==
  [][\A t \in DOMAIN tasks \cap DOMAIN tasks' :
       (tasks[t].status = DOWNLOADING /\ tasks'[t].status = DOWNLOADING)
         => tasks'[t].downloaded_size >= tasks[t].downloaded_size]_vars

\* C5: when cancel_download returns for a task that was DOWNLOADING or
\* VERIFYING in Python mode, the task is CANCELLED, has no entry in the
\* process map and no worker process of it is alive.
C5_CancelReturns ==
  (last.op = "cancel" /\ last.ret = True /\ last.pre = "active"
     /\ method = "PYTHON")
    => /\ StatusIn(last.task, {CANCELLED})
       /\ last.task \notin DOMAIN processes
       /\ LiveWorkers(last.task) = {}

CancelInFlight(t) == \E c \in calls : c.op = "cancel" /\ c.task = t

\* C6: once cancel_download or pause_download has returned, a task that is
\* CANCELLED or PAUSED has no live worker process.
C6_NoWorkerAfterCancel ==
  \A t \in DOMAIN tasks :
    (tasks[t].status \in {CANCELLED, PAUSED} /\ ~CancelInFlight(t))
      => LiveWorkers(t) = {}

\* A step of one of the two monitors: the progress-channel consumer or an
\* aria2 polling loop.
MonitorStep == MonitorQueue \/ \E m \in monitors : MonitorAria2(m)

\* C7: once cancel_download or pause_download has returned, no
\* progress-channel event and no aria2 poll moves the task out of CANCELLED,
\* or moves a PAUSED task to VERIFYING, COMPLETED or FAILED.
C7_CancelledSticks ==
  [][MonitorStep =>
       \A t \in DOMAIN tasks \cap DOMAIN tasks' :
         ~CancelInFlight(t) =>
           /\ tasks[t].status = CANCELLED => tasks'[t].status = CANCELLED
           /\ tasks[t].status = PAUSED =>
                tasks'[t].status \notin {VERIFYING, COMPLETED, FAILED}]_vars

\* C8: COMPLETED is terminal -- cancel_download and pause_download leave a
\* COMPLETED task COMPLETED.
C8_CompletedTerminal ==
  [][\A t \in DOMAIN tasks, st \in {PAUSED, CANCELLED} :
       (CancelDownload(t, st) /\ tasks[t].status = COMPLETED)
         => tasks'[t].status = COMPLETED]_vars

\* C9: pause_download leaves the status of a task that is not DOWNLOADING
\* unchanged.
C9_PauseOnlyFromDownloading ==
  [][\A t \in DOMAIN tasks :
       (CancelDownload(t, PAUSED) /\ tasks[t].status # DOWNLOADING)
         => tasks'[t].status = tasks[t].status]_vars

IsPrefix(s, r) == Len(s) <= Len(r) /\ \A i \in 1..Len(s) : s[i] = r[i]

\* C10: the return of pause_download keeps the recorded job group of the
\* task, and a dispatch that finds a recorded group issues unpause calls for
\* the recorded gids, in order, and nothing else: no job is added and the
\* group is unchanged.
C10_ResumeKeepsGroup ==
  [][\A c \in calls :
       /\ (CancelFinish(c) /\ c.arg = PAUSED /\ c.task \in DOMAIN aria2_gids)
            => aria2_gids' = aria2_gids
       /\ (DispatchAria2(c) /\ c.task \in DOMAIN tasks
             /\ c.task \in DOMAIN aria2_gids)
            => /\ aria2_gids' = aria2_gids
               /\ Len(jobs') = Len(jobs)
               /\ last'.rpc # << >>
               /\ IsPrefix(last'.rpc,
                           CallsOn("unpause", aria2_gids[c.task]))]_vars

\* C10 witness: a paused task with two recorded jobs was resumed.
C10_Witness ==
  /\ last.op = "dispatch" /\ last.ret = "resumed"
  /\ last.rpc = CallsOn("unpause", aria2_gids[last.task])
  /\ Len(last.rpc) = Len(FileSizes)
  /\ StatusIn(last.task, {DOWNLOADING})

\* ------------------------------------------------- the target directory
\* The directory n is free for a download: it does not exist, is empty, or
\* holds an aria2 control file.
FreeDir(n) == ~Occupied(disk, n) \/ "model.bin.aria2" \in disk[n].files

\* C11: queue_download with duplicate_action 'check' on a download root
\* whose resolved directory is occupied and holds no control file raises
\* DuplicateDownloadError with the resolved path and leaves the registry and
\* the saved queue unchanged; otherwise, and with 'overwrite', it queues a
\* PENDING task whose resolved directory is that path.
C11_DuplicateCheck ==
  [][\A p \in Patterns, a \in {"check", "overwrite"} :
       QueueDownloadTo(Root, p, a) =>
         LET dup == a = "check" /\ ~FreeDir(0) IN
         /\ dup => /\ last'.ret = "DuplicateDownloadError"
                   /\ last'.pre = 0
                   /\ UNCHANGED <<tasks, saved>>
         /\ ~dup => /\ last'.ret = "queued"
                    /\ last'.task \in DOMAIN tasks'
                    /\ tasks'[last'.task].status = PENDING
                    /\ tasks'[last'.task].resolved_local_dir = 0
                    /\ DOMAIN saved' = DOMAIN tasks']_vars

\* C11 witness: the error was raised while the registry held a task.
C11_Witness ==
  /\ last.op = "queue" /\ last.ret = "DuplicateDownloadError"
  /\ tasks # << >>
  /\ ~FreeDir(0)

\* C12: queue_download with duplicate_action 'rename' queues a PENDING task
\* whose resolved directory is the first of base, base_1, ... that is free.
C12_RenameFirstFree ==
  [][\A p \in Patterns :
       QueueDownloadTo(Root, p, "rename") =>
         /\ last'.ret = "queued"
         /\ FreeDir(last'.pre)
         /\ \A m \in 0..(last'.pre - 1) : ~FreeDir(m)
         /\ tasks'[last'.task].status = PENDING
         /\ tasks'[last'.task].resolved_local_dir = last'.pre]_vars

\* C12 witness: the search passed an occupied base and stopped at base_1,
\* which holds a control file.
C12_Witness ==
  /\ last.op = "queue" /\ last.ret = "queued" /\ last.pre = 1
  /\ Occupied(disk, 1)

\* C17: remove_task with delete_files changes no directory other than the
\* task's resolved directory or result path, and for a task whose resolved
\* directory carries a suffix it leaves the unsuffixed directory as it was.
C17_RemoveOwnDirOnly ==
  [][\A t \in DOMAIN tasks :
       RemoveTaskFiles(t, TRUE) =>
         /\ \A n \in Paths :
              (n # tasks[t].resolved_local_dir /\ n # tasks[t].result_path)
                => disk'[n] = disk[n]
         /\ tasks[t].resolved_local_dir > 0 => disk'[0] = disk[0]]_vars

\* ---------------------------------------------------- removal of tasks
\* C15: clear_completed removes exactly the tasks that are COMPLETED, FAILED
\* or CANCELLED, returns their number and leaves every other task as it was.
C15_ClearCompleted ==
  [][ClearCompleted =>
       LET gone == {t \in DOMAIN tasks :
                      tasks[t].status \in {COMPLETED, FAILED, CANCELLED}} IN
       /\ DOMAIN tasks' = DOMAIN tasks \ gone
       /\ \A t \in DOMAIN tasks' : tasks'[t] = tasks[t]
       /\ last'.ret = ToString(Cardinality(gone))]_vars

\* C15 witness: two tasks were removed and a PAUSED one was kept.
C15_Witness ==
  /\ last.op = "clear" /\ last.ret = "2"
  /\ \E t \in DOMAIN tasks : tasks[t].status = PAUSED

\* C16: when remove_task returns True the task is in neither the registry
\* nor the saved queue and no process entry, live worker or job group is
\* recorded for its id; an event for an id that is not registered changes
\* no task; remove_task on an unknown id returns False and changes nothing.
C16_RemoveLeavesNothing ==
  [][/\ \A t \in TaskIds :
          (last'.op = "remove" /\ last'.task = t /\ last'.ret = True)
            => /\ t \notin DOMAIN tasks'
               /\ t \notin DOMAIN saved'
               /\ t \notin DOMAIN processes'
               /\ \A p \in DOMAIN workers' :
                    workers'[p].task = t => ~workers'[p].alive
               /\ t \notin DOMAIN aria2_gids'
     /\ (MonitorQueue /\ Head(msg_queue).task_id \notin DOMAIN tasks)
          => UNCHANGED tasks
     /\ \A t \in TaskIds \ DOMAIN tasks :
          RemoveTask(t) => /\ last'.ret = False
                           /\ UNCHANGED <<tasks, saved, pyVars, ariaVars>>]_vars

\* ---------------------------------------------------------- persistence
\* The saved queue holds exactly the registry's tasks, with their statuses.
SavedMatches(ts, sv) ==
  /\ DOMAIN sv = DOMAIN ts
  /\ \A t \in DOMAIN ts : sv[t].status = ts[t].status

\* A step of the running application that changes the status of a task, the
\* locked half of a pause/cancel/remove call excepted (its save comes with
\* the other half).
StatusEvent ==
  /\ \E t \in DOMAIN tasks \cap DOMAIN tasks' :
       tasks'[t].status # tasks[t].status
  /\ restarts' = restarts
  /\ \A t \in TaskIds :
       /\ ~RemoveTask(t)
       /\ \A st \in {PAUSED, CANCELLED} : ~CancelDownload(t, st)

\* C13: after every step that queues a task, changes a status, or returns
\* from pause_download or cancel_download, the saved queue matches the
\* registry.
C13_SavedAfterEvent ==
  [][(\/ StatusEvent
      \/ \E t \in TaskIds : QueueDownload(t)
      \/ last'.op \in {"pause", "cancel"} /\ last'.ret = True)
       => SavedMatches(tasks', saved')]_vars

\* ------------------------------------------------------- error reporting
\* C18: a worker run that ends with an exception puts exactly one error
\* event on the progress channel.
C18_SingleErrorEvent ==
  [][\A p \in DOMAIN workers :
       WorkerError(p) =>
         /\ Len(msg_queue') = Len(msg_queue) + 1
         /\ msg_queue'[Len(msg_queue')].type = "error"]_vars

\* C20: every FAILED or CANCELLED task has an error message.
C20_ErrorMessagePresent ==
  \A t \in DOMAIN tasks :
    tasks[t].status \in {FAILED, CANCELLED} => tasks[t].error_message # None

\* C19: a worker makes at most two transfer attempts; the second one is made
\* only after a failed first attempt with acceleration requested and emits
\* nothing by itself; an error leaves the transfer phase after the second
\* attempt when acceleration was requested and after the first otherwise.
C19_OneFallback ==
  [][\A p \in DOMAIN workers :
       /\ workers'[p].attempts <= 2
       /\ WorkerFallback(p) => /\ use_hf_transfer
                               /\ workers[p].attempts = 1
                               /\ workers'[p].attempts = 2
                               /\ msg_queue' = msg_queue
       /\ (WorkerError(p) /\ workers[p].pc = "transfer")
            => workers[p].attempts = (IF use_hf_transfer THEN 2 ELSE 1)]_vars

\* C19 witness: the error events of a run whose unaccelerated retry failed.
C19_Witness ==
  /\ use_hf_transfer
  /\ \E p \in DOMAIN workers : workers[p].pc = "exit" /\ workers[p].attempts = 2
  /\ \E i \in DOMAIN msg_queue : msg_queue[i].type = "error"
  /\ \A i \in DOMAIN msg_queue : msg_queue[i].type # "status_change"
  /\ \A t \in DOMAIN tasks : tasks[t].status = DOWNLOADING

\* --------------------------------------------------------------- loading
\* C14: load_queue loads a DOWNLOADING or VERIFYING record as PAUSED, or as
\* PENDING under auto-resume, and every other record with its status; sizes
\* and the error message are loaded as saved; the load itself starts no
\* worker and adds no job, and under auto-resume it starts the thread that
\* then starts the PENDING tasks, which become DOWNLOADING.
C14_LoadResets ==
  [][/\ (restarts' # restarts) =>
          /\ DOMAIN tasks' = DOMAIN saved
          /\ \A t \in DOMAIN saved :
               /\ tasks'[t].status =
                    (IF saved[t].status \in {DOWNLOADING, VERIFYING}
                     THEN (IF auto_resume THEN PENDING ELSE PAUSED)
                     ELSE saved[t].status)
               /\ tasks'[t].total_size = saved[t].total_size
               /\ tasks'[t].downloaded_size = saved[t].downloaded_size
               /\ tasks'[t].error_message = saved[t].error_message
          /\ Len(workers') = Len(workers)
          /\ \A p \in DOMAIN workers : workers'[p].alive => workers[p].alive
          /\ jobs' = << >> /\ processes' = << >>
          /\ calls' = IF auto_resume
                      THEN {Call("auto_resume", None, None, FALSE)} ELSE {}
     /\ \A c \in calls :
          (AutoResumeStart(c) /\ StatusIn(c.task, {PENDING}))
            => /\ tasks'[c.task].status = DOWNLOADING
               /\ Call("start", c.task, None, FALSE) \in calls']_vars

\* C14 witness: a record saved as DOWNLOADING or VERIFYING was loaded under
\* auto-resume and started again.
C14_Witness ==
  /\ auto_resume /\ restarts = 1
  /\ last.op = "auto_start" /\ last.ret = True /\ last.pre = PENDING
  /\ last.task \in DOMAIN saved
  /\ saved[last.task].status \in {DOWNLOADING, VERIFYING}
  /\ StatusIn(last.task, {DOWNLOADING})

\* ---------------------------------------------------------- restarting
\* C21: the rest of a start_download that found the task FAILED puts an
\* execution unit to work on it: _spawn_process records a live worker for
\* the task, and the aria2 dispatch, unless the file listing cannot be
\* fetched or the daemon does not take the new jobs, leaves the task
\* DOWNLOADING with a running monitor thread and an active job.
C21_FailedRestarts ==
  [][\A c \in calls :
       (c.op = "start" /\ c.arg = FAILED /\ StatusIn(c.task, {DOWNLOADING}))
         => /\ SpawnProcess(c) =>
                 /\ c.task \in DOMAIN processes'
                 /\ workers'[processes'[c.task]].alive
            /\ DispatchAria2(c) =>
                 \/ last'.ret = "failed" /\ last'.rpc = << >>
                 \/ last'.ret = "add_failed"
                 \/ /\ tasks'[c.task].status = DOWNLOADING
                    /\ \E m \in monitors' :
                         /\ m.task = c.task
                         /\ \E i \in DOMAIN m.gids :
                              jobs'[m.gids[i]].status = "active"]_vars

\* ------------------------------------------------------- the status graph
\* C22: within a run of the application a task becomes COMPLETED only from
\* VERIFYING and becomes VERIFYING only from DOWNLOADING.
C22_CompletedAfterVerifying ==
  [][(restarts' = restarts) =>
       \A t \in DOMAIN tasks \cap DOMAIN tasks' :
         /\ (tasks'[t].status = COMPLETED /\ tasks[t].status # COMPLETED)
              => tasks[t].status = VERIFYING
         /\ (tasks'[t].status = VERIFYING /\ tasks[t].status # VERIFYING)
              => tasks[t].status = DOWNLOADING]_vars

\* ------------------------------------------------------------- task ids
\* C23: a queue_download that returns adds a task under an id the registry
\* did not hold and leaves every task already registered as it was.
C23_NoDedupe ==
  [][\A dir \in {None, Root}, p \in Patterns,
        a \in {"check", "overwrite", "rename"} :
       (QueueDownloadTo(dir, p, a) /\ last'.ret = "queued")
         => /\ last'.task \notin DOMAIN tasks
            /\ \A u \in DOMAIN tasks : u \in DOMAIN tasks' /\ tasks'[u] = tasks[u]]_vars

\* ------------------------------------------------------ pre-flight errors
\* C24: the file listing is never found unfetchable for a task that a
\* start_download has made DOWNLOADING: neither by the aria2 dispatch (its
\* repo_info raised) nor by the worker process (its repo_info raised and no
\* 'meta' event was sent).
C24_MetadataFailureNotRunning ==
  [][/\ \A c \in calls :
          (DispatchAria2(c) /\ ~HasGids(c.task) /\ last'.ret = "failed")
            => ~StatusIn(c.task, {DOWNLOADING})
     /\ \A p \in DOMAIN workers :
          (WorkerMeta(p) /\ msg_queue' = msg_queue)
            => ~StatusIn(workers[p].task, {DOWNLOADING})]_vars

\* ------------------------------------------------ unexpected process exit
\* C25: a task that is DOWNLOADING or VERIFYING with a worker process that
\* died without a terminal event, and with no start_download in flight,
\* does not stay DOWNLOADING or VERIFYING forever (it is to become FAILED).
C25_CrashSurfaces ==
  \A t \in TaskIds :
    (/\ StatusIn(t, {DOWNLOADING, VERIFYING})
     /\ t \in DOMAIN processes
     /\ workers[processes[t]].pc = "crashed"
     /\ calls = {})
      ~> ~StatusIn(t, {DOWNLOADING, VERIFYING})

\* ------------------------------------------------------------ verification
\* C26: verify_repo puts every expected file (LFS-tracked, matching the
\* include patterns and no exclude pattern) into exactly one list: missing
\* when there is no local copy, valid when the local hash equals the
\* expected one, corrupted otherwise (unreadable files included); every
\* listed file is an expected one; is_valid holds exactly when corrupted
\* and missing are empty, in particular when no file is expected.
C26_VerifyPartition ==
  (last.op = "verify") =>
    LET siblings == last.task
        r == last.ret
        expected ==
          {f \in RepoFiles :
             /\ siblings[f] # None
             /\ last.pre[1] = <<"*.bin">> => f \in {"model.bin", "vocab.bin"}
             /\ last.pre[2] = <<"*.md">> => f # "README.md"}
    IN /\ \A f \in expected :
            /\ f \in r.missing_files <=> disk[f] = "absent"
            /\ f \in r.valid_files <=>
                 \E c \in Contents : disk[f] = c /\ Sha256(c) = siblings[f]
            /\ f \in r.corrupted_files <=>
                 \/ disk[f] = "unreadable"
                 \/ \E c \in Contents : disk[f] = c /\ Sha256(c) # siblings[f]
       /\ r.valid_files \cup r.corrupted_files \cup r.missing_files = expected
       /\ r.valid_files \cap r.corrupted_files = {}
       /\ r.valid_files \cap r.missing_files = {}
       /\ r.corrupted_files \cap r.missing_files = {}
       /\ r.is_valid <=> (r.corrupted_files = {} /\ r.missing_files = {})
       /\ expected = {} => r.is_valid

\* C26 witness: of three expected files one is valid, one corrupted and one
\* missing.
C26_Witness ==
  /\ last.op = "verify"
  /\ last.ret.valid_files # {} /\ last.ret.corrupted_files # {}
  /\ last.ret.missing_files # {}
  /\ ~last.ret.is_valid

\* -------------------------------------------------------- stall detection
\* The progress events handled so far came less than 3 seconds apart and
\* the last one less than 3 seconds ago.
EventsKeepArriving ==
  /\ event_times # << >>
  /\ \A i \in 1..(Len(event_times) - 1) :
       event_times[i + 1] - event_times[i] < StaleAfter
  /\ now - event_times[Len(event_times)] < StaleAfter

\* C27: a sweep finding a DOWNLOADING task with positive speed whose last
\* progress event is more than 3 seconds old sets the speed to 0 and leaves
\* the status and every field other than the speed and its rendering as
\* they were; a sweep does not zero the speed of a task whose progress
\* events keep arriving less than 3 seconds apart.
C27_StallDetection ==
  [][Sweep =>
       \A t \in DOMAIN tasks :
         /\ (/\ tasks[t].status = DOWNLOADING /\ Positive(tasks[t].speed)
             /\ event_times # << >>
             /\ now - event_times[Len(event_times)] > StaleAfter)
              => /\ tasks'[t].speed = ZeroSpeed
                 /\ tasks'[t] = [tasks[t] EXCEPT
                                   !.speed = ZeroSpeed,
                                   !.speed_formatted = "Stalled"]
         /\ EventsKeepArriving => tasks'[t].speed = tasks[t].speed]_vars

\* ------------------------------------------------------ progress events
\* C28: on a started task with a known total, a byte-unit progress event
\* adds its increment to downloaded_size and sets progress to
\* min(100, downloaded_size / total_size * 100), and 'completed' with a
\* result path sets COMPLETED, progress 100 and that result path and leaves
\* the byte counts: increments that sum to the total followed by
\* 'completed' end with downloaded_size = total_size.
C28_ProgressThenCompleted ==
  [][\A t \in DOMAIN tasks :
       /\ \A inc \in 0..MaxInc :
            HandleProgress(t, inc) =>
              /\ tasks'[t].downloaded_size = tasks[t].downloaded_size + inc
              /\ tasks'[t].status = tasks[t].status
              /\ tasks'[t].total_size = tasks[t].total_size
              /\ tasks[t].total_size > 0 =>
                   tasks'[t].progress =
                     Min(100, (tasks'[t].downloaded_size * 100)
                                \div tasks[t].total_size)
       /\ \A path \in ResultPaths :
            HandleCompleted(t, path) =>
              /\ tasks'[t].status = COMPLETED
              /\ tasks'[t].progress = 100
              /\ tasks'[t].result_path = path
              /\ tasks'[t].downloaded_size = tasks[t].downloaded_size
              /\ tasks'[t].total_size = tasks[t].total_size]_vars

\* C28 witness: two progress events brought the task from 0 to its total
\* and 'completed' finalized it.
C28_Witness ==
  \E t \in DOMAIN tasks :
    /\ Len(event_times) = 2
    /\ tasks[t].total_size > 0
    /\ tasks[t].downloaded_size = tasks[t].total_size
    /\ tasks[t].status = COMPLETED /\ tasks[t].progress = 100
    /\ tasks[t].result_path \in ResultPaths

\* ------------------------------------------------- ownership of workers
\* C29: whenever no public call is between its two halves, every live
\* worker process is the one recorded in the process map under its task
\* id, no task id has two live workers, and a task that is PENDING, PAUSED,
\* CANCELLED, COMPLETED or FAILED has no live worker.
C29_NoOrphanWorker ==
  (calls = {}) =>
    /\ \A p \in DOMAIN workers :
         workers[p].alive =>
           /\ workers[p].task \in DOMAIN processes
           /\ processes[workers[p].task] = p
    /\ \A t \in TaskIds : Cardinality(LiveWorkers(t)) <= 1
    /\ \A t \in DOMAIN tasks :
         tasks[t].status \in {PENDING, PAUSED, CANCELLED, COMPLETED, FAILED}
           => LiveWorkers(t) = {}

\* ------------------------------------------------------------ the lock
\* C30: no cancel_download or pause_download and no pass of the monitor
\* loop ends with an exception from its access to the process map.
C30_NoRaceException == last.ret # "KeyError"

\* ------------------------------------------------- resuming a job group
Resumable(js, g) ==
  g \in DOMAIN js /\ js[g].status \in {"paused", "active", "waiting"}

\* C31: a dispatch that finds a recorded job group with a job that is not
\* paused, active or waiting dispatches a new group: unless the file listing
\* cannot be fetched, the task is DOWNLOADING afterwards, a different group
\* is recorded for it and a monitor thread runs for that group.
C31_ResumeFallsBack ==
  [][\A c \in calls :
       (/\ DispatchAria2(c) /\ c.task \in DOMAIN tasks /\ HasGids(c.task)
        /\ \E i \in DOMAIN aria2_gids[c.task] :
             ~Resumable(jobs, aria2_gids[c.task][i]))
         => \/ last'.ret = "failed" /\ last'.rpc = << >>
            \/ /\ tasks'[c.task].status = DOWNLOADING
               /\ aria2_gids'[c.task] # aria2_gids[c.task]
               /\ [task |-> c.task, gids |-> aria2_gids'[c.task]]
                    \in monitors']_vars

\* ------------------------------------------------------ the aria2 poll
JobsIn(gids, st) == {i \in DOMAIN gids : jobs[gids[i]].status = st}

\* C32: a poll of the monitor thread finds the task DOWNLOADING and leaves
\* it FAILED with an error message if a job of its group is in error, else
\* COMPLETED with progress 100 if the group is not empty and every job of
\* it is complete, else DOWNLOADING; a poll that finds the task PAUSED or
\* CANCELLED leaves its status alone.
C32_PollReconciles ==
  [][\A m \in monitors :
       (MonitorAria2(m) /\ m.task \in DOMAIN tasks) =>
         LET t == m.task
             failed == JobsIn(m.gids, "error") # {}
             completed == /\ Len(m.gids) > 0
                          /\ JobsIn(m.gids, "complete") = DOMAIN m.gids IN
         /\ tasks[t].status = DOWNLOADING =>
              /\ failed => /\ tasks'[t].status = FAILED
                           /\ tasks'[t].error_message # None
              /\ (~failed /\ completed) => /\ tasks'[t].status = COMPLETED
                                           /\ tasks'[t].progress = 100
              /\ (~failed /\ ~completed) => tasks'[t].status = DOWNLOADING
         /\ tasks[t].status \in {PAUSED, CANCELLED} =>
              tasks'[t].status = tasks[t].status]_vars

\* ------------------------------------------------ lifetime of a job group
\* C33: once a cancel_download has returned, a job group is recorded only
\* for a task that is in the registry and is neither COMPLETED nor
\* CANCELLED.
C33_GroupLifetime ==
  \A t \in DOMAIN aria2_gids :
    ~CancelInFlight(t) => /\ t \in DOMAIN tasks
                          /\ tasks[t].status \notin {COMPLETED, CANCELLED}

\* ------------------------------------------------ monitor threads
MonitorsOf(t) == {m \in monitors : m.task = t}

\* C34: a task that is DOWNLOADING with a recorded job group, and with no
\* start_download or cancel_download of it in flight, is polled by exactly
\* one monitor thread.
C34_OneMonitor ==
  \A t \in DOMAIN tasks :
    (/\ tasks[t].status = DOWNLOADING
     /\ t \in DOMAIN aria2_gids
     /\ \A c \in calls : c.task # t)
      => Cardinality(MonitorsOf(t)) = 1

\* --------------------------------------------- the directory written to
\* C35: for a task queued with a local_dir, the backend writes into the
\* task's resolved_local_dir and into no other directory, and a
\* queue_download with duplicate_action check or overwrite resolves it to
\* the unsuffixed directory of the repository.
C35_WritesToResolvedDir ==
  [][/\ \A t \in DOMAIN tasks :
          (WriteFile(t) /\ tasks[t].local_dir # None)
            => \A n \in Paths :
                 n # tasks[t].resolved_local_dir => disk'[n] = disk[n]
     /\ \A p \in Patterns, a \in {"check", "overwrite"} :
          (QueueDownloadTo(Root, p, a) /\ last'.ret = "queued")
            => tasks'[last'.task].resolved_local_dir = 0]_vars

\* ------------------------------------------------ the default cache
\* C36: the worker of a task queued without a local_dir does not end with
\* an error event before it attempted any transfer.
C36_CacheTaskTransfers ==
  [][\A t \in DOMAIN tasks :
       (method = "PYTHON" /\ tasks[t].local_dir = None) => ~FailTo(t)]_vars

\* ------------------------------------------------ observer notification
\* C37: a pass of the monitor loop that changed a field of the task called
\* every registered observer, the raising one and the ones after it.
C37_AppliedEventNotifies ==
  last.ret = "changed" => last.rpc = Callbacks

\* ------------------------------------------------------- auto-resume
\* C38: a start made by the auto-resume thread is a start of a task whose
\* record in the queue file was DOWNLOADING or VERIFYING.
C38_AutoResumeOnlyRunning ==
  (last.op = "auto_start" /\ last.ret = True)
    => /\ last.task \in DOMAIN saved
       /\ saved[last.task].status \in {DOWNLOADING, VERIFYING}

\* ------------------------------------------------ jobs of a failed dispatch
\* C39: a dispatch that fails while adding its jobs leaves the task FAILED,
\* and every job the daemon accepted from it is recorded in the task's job
\* group or has been removed.
C39_NoUntrackedJob ==
  [][\A c \in calls :
       (DispatchAria2(c) /\ last'.ret = "add_failed")
         => /\ tasks'[c.task].status = FAILED
            /\ \A g \in DOMAIN jobs' \ DOMAIN jobs :
                 \/ jobs'[g].status = "removed"
                 \/ /\ c.task \in DOMAIN aria2_gids'
                    /\ \E i \in DOMAIN aria2_gids'[c.task] :
                         aria2_gids'[c.task][i] = g]_vars

\* ----------------------------------------------- the end of a dispatch
\* C40: a task that is DOWNLOADING after a dispatch recorded its job group
\* and started its monitor thread does not stay DOWNLOADING forever, when
\* the monitor keeps polling and every job ends.
C40_LeavesDownloading ==
  \A t \in TaskIds :
    (/\ StatusIn(t, {DOWNLOADING})
     /\ t \in DOMAIN aria2_gids
     /\ MonitorsOf(t) # {})
      ~> ~StatusIn(t, {DOWNLOADING})

====
